---- MODULE Spec2Model ----
(***************************************************************************)
(* The chat layer of c3po_frontend: the session store                      *)
(* (src/chat/session_manager.py), the chat routes (src/chat/api.py) and    *)
(* the SSE stream relay (src/chat/streaming.py), the completion adapter    *)
(* (src/chat/claude_client.py) and the tool dispatch                       *)
(* (src/chat/mcp_client.py).                                               *)
(*                                                                         *)
(* Request threads run the Flask handlers; every shared access of a        *)
(* handler (a lookup in session_manager.sessions, a `with self._lock:`     *)
(* block, a read of the clock, a pull from the adapter's generator) is one *)
(* step, so that handlers of different threads and the cleanup thread      *)
(* interleave as they do under Python's threads.  Text is a sequence of    *)
(* characters; a fixed phrase of the program is written as one element.    *)
(* Time is counted in hours.                                               *)
(***************************************************************************)
EXTENDS Integers, Sequences, FiniteSets, TLC

(* ------------------------------ bounds --------------------------------- *)
\* Requests the clients issue in one run.
MaxRequests == 2
\* Requests of a client that fills a session's history.
MaxAppends == 3
\* Stream requests issued against a store that already holds a conversation.
MaxStreams == 1
\* Hours the clock advances in one run.
MaxTime == 2
\* Fragments the adapter yields for one response.
MaxFragments == 2
\* uuid4() values drawn in one run.
MaxUuids == 1
\* Events the adapter reads from one completion stream.
MaxEvents == 4
\* Characters of a tool's registry key.
MaxKey == 4
\* Characters of a text given to the markdown formatting.
MaxText == 3
\* Requests of a browser to the login, logout and index pages.
MaxLogin == 8
\* Requests of a client that posts a message and opens its stream.
MaxChat == 3
\* config.py:81 sets MAX_HISTORY_LENGTH = 50; the cap is scaled down so that
\* truncation happens within MaxRequests appends.
MAX_HISTORY_LENGTH == 2
\* api.py:37 limits a message to 10000 characters; scaled down likewise.
MESSAGE_LIMIT == 2

(* ------------------------- program constants --------------------------- *)
SESSION_TIMEOUT_HOURS == 1

\* The request-handling threads of the server.
Threads == {"t1", "t2"}
\* The thread that serves the requests of a single client, one after another.
Serial == {"t1"}
\* Owners of session_manager._lock.
Free == "free"
Sweeper == "cleanup"

(* ------------------------------- text ---------------------------------- *)
\* A text is the sequence of its characters.  The characters str.strip()
\* and the regular expressions' \s treat as whitespace.
Whitespace == { " ", "\n" }

RECURSIVE LStrip(_)
LStrip(s) == IF s = <<>> THEN s
             ELSE IF Head(s) \in Whitespace THEN LStrip(Tail(s)) ELSE s

RECURSIVE RStrip(_)
RStrip(s) == IF s = <<>> THEN s
             ELSE IF s[Len(s)] \in Whitespace THEN RStrip(SubSeq(s, 1, Len(s) - 1)) ELSE s

\* str.strip()
Strip(s) == RStrip(LStrip(s))

Last(s) == s[Len(s)]

\* A message longer than the limit, whatever the limit is.
TooLong == [i \in 1..(MESSAGE_LIMIT + 1) |-> "a"]

\* The `message` values of the request bodies (a missing key reads as '').
RawMessages == { <<>>, <<" ">>, <<"a">>, <<" ", "a", " ">>, <<"b">>, TooLong }

\* Session identifiers the clients choose, with and without padding; the
\* empty one stands for an omitted session_id.
ClientIds == { <<"c">> }
RawSessionIds(known) == { <<>>, <<" ">> } \cup ClientIds \cup known
                          \cup { <<" ">> \o c : c \in ClientIds }

\* str(uuid.uuid4()) of the k-th draw.
Uuid(k) == <<"u", ToString(k)>>

\* A `context`: null or a dict from the request body, and {} (the default).
CtxNone == <<"None">>
CtxEmpty == <<>>
CtxRoot == <<"current_node", "root">>
Contexts == { CtxNone, CtxRoot }
\* Python truthiness of a context, and `context or {}`.
Truthy(c) == c # CtxNone /\ c # CtxEmpty
OrEmpty(c) == IF Truthy(c) THEN c ELSE CtxEmpty

\* Text fragments the adapter may yield.
Fragments == { <<"x">>, <<"y">> }

\* sub occurs in s.
Contains(s, sub) ==
    \E i \in 1..(Len(s) - Len(sub) + 1) : SubSeq(s, i, i + Len(sub) - 1) = sub

(* ------------------------------ tool names ----------------------------- *)
\* str.replace(old, new): every occurrence is replaced.
RECURSIVE ReplaceAll(_, _, _)
ReplaceAll(s, old, new) ==
    IF s = <<>> THEN <<>>
    ELSE <<IF Head(s) = old THEN new ELSE Head(s)>> \o ReplaceAll(Tail(s), old, new)

\* str.replace(old, new, 1): the first occurrence is replaced.
RECURSIVE ReplaceFirst(_, _, _)
ReplaceFirst(s, old, new) ==
    IF s = <<>> THEN <<>>
    ELSE IF Head(s) = old THEN <<new>> \o Tail(s)
    ELSE <<Head(s)>> \o ReplaceFirst(Tail(s), old, new)

\* get_tools_for_claude: the name a registry key is advertised under.
ClaudeName(tool_key) == ReplaceAll(tool_key, ":", "_")

\* handle_tool_use: the registry key looked up for an advertised name.
McpName(tool_name) == ReplaceFirst(tool_name, "_", ":")

\* mcp_client.tools after initialize(): the one registered key,
\* "perplexity-ask:perplexity_ask", written server-ask:tool_ask.
RegisteredKey == <<"p", "-", "a", ":", "p", "_", "a">>
Tools == { RegisteredKey }

(* --------------------------- markdown formatting ----------------------- *)
\* The characters of the texts that are formatted; "http://" stands for the
\* seven characters of a URL scheme, "A" for an upper-case letter.
Upper == { "A" }
Scheme == "http://"
\* The bullet character U+2022.
Bullet == "o"

\* re.sub(r'\*\*(.*?)\*\*', r'**\1**', content), line 252: every match is
\* replaced by itself.
SubBold(content) == content

\* re.sub(r'\[(\d+)\]', r'[\1]', content), line 255: every match is
\* replaced by itself.
SubCitation(content) == content

\* re.sub(r'(?<!\n)\n- ', r'\n\n- ', content) of lines 258 and 259, for the
\* bullet character given, scanning from position i.
RECURSIVE SubBulletFrom(_, _, _)
SubBulletFrom(s, bullet, i) ==
    IF i > Len(s) THEN <<>>
    ELSE IF /\ i + 2 <= Len(s)
            /\ s[i] = "\n" /\ s[i + 1] = bullet /\ s[i + 2] = " "
            /\ (i = 1 \/ s[i - 1] # "\n")
         THEN <<"\n", "\n", bullet, " ">> \o SubBulletFrom(s, bullet, i + 3)
         ELSE <<s[i]>> \o SubBulletFrom(s, bullet, i + 1)

SubBullet(content, bullet) == SubBulletFrom(content, bullet, 1)

\* The end of the longest run of characters from position i on that are
\* outside `stop` (i - 1 when there is none).
RECURSIVE RunEnd(_, _, _)
RunEnd(s, i, stop) ==
    IF i > Len(s) \/ s[i] \in stop THEN i - 1 ELSE RunEnd(s, i + 1, stop)

\* re.sub(r'\n([A-Z][^:\n]*:)\n', r'\n\n**\1**\n\n', content), line 262,
\* scanning from position i.  The colon of a URL scheme is followed by a
\* slash, so a header neither ends in a scheme nor runs over one.
RECURSIVE SubHeaderFrom(_, _)
SubHeaderFrom(s, i) ==
    IF i > Len(s) THEN <<>>
    ELSE LET j == RunEnd(s, i + 2, {":", "\n", Scheme}) + 1 IN
         IF /\ i + 1 <= Len(s)
            /\ s[i] = "\n" /\ s[i + 1] \in Upper
            /\ j + 1 <= Len(s)
            /\ s[j] = ":" /\ s[j + 1] = "\n"
         THEN <<"\n", "\n", "*", "*">> \o SubSeq(s, i + 1, j)
                 \o <<"*", "*", "\n", "\n">> \o SubHeaderFrom(s, j + 2)
         ELSE <<s[i]>> \o SubHeaderFrom(s, i + 1)

SubHeader(content) == SubHeaderFrom(content, 1)

\* re.sub(r'(https?://[^\s\]]+)', r'[\1](\1)', content), line 265, scanning
\* from position i.
RECURSIVE SubUrlFrom(_, _)
SubUrlFrom(s, i) ==
    IF i > Len(s) THEN <<>>
    ELSE LET k == RunEnd(s, i + 1, Whitespace \cup {"]"})
             url == SubSeq(s, i, k)
         IN
         IF s[i] = Scheme /\ k > i
         THEN <<"[">> \o url \o <<"]", "(">> \o url \o <<")">> \o SubUrlFrom(s, k + 1)
         ELSE <<s[i]>> \o SubUrlFrom(s, i + 1)

SubUrl(content) == SubUrlFrom(content, 1)

\* re.sub(r'\n{3,}', r'\n\n', content), line 268, scanning from position i.
RECURSIVE SubNewlinesFrom(_, _)
SubNewlinesFrom(s, i) ==
    IF i > Len(s) THEN <<>>
    ELSE LET k == RunEnd(s, i, {s[n] : n \in 1..Len(s)} \ {"\n"}) IN
         IF k - i + 1 >= 3
         THEN <<"\n", "\n">> \o SubNewlinesFrom(s, k + 1)
         ELSE <<s[i]>> \o SubNewlinesFrom(s, i + 1)

SubNewlines(content) == SubNewlinesFrom(content, 1)

\* ClaudeClient.format_markdown_response
FormatMarkdownResponse(content) ==
    Strip(SubNewlines(SubUrl(SubHeader(
        SubBullet(SubBullet(SubCitation(SubBold(content)), "-"), Bullet)))))

(* ------------------------------ values --------------------------------- *)
\* A stored message before it is built (no message).
NoMessage == [role |-> "", content |-> <<>>, context |-> CtxEmpty, timestamp |-> -1]
\* An HTTP response that has not been produced yet.
NoResponse == [status |-> 0, session_id |-> <<>>, messages |-> <<>>]

\* create_sse_response payloads.
\* (A start event that does not say which session it opens.)
StartEventWithoutSession(session_id) ==
    [type |-> "start", session_id |-> <<>>, content |-> <<>>,
     error |-> "", message_id |-> -1]

StartEvent(session_id) ==
    [type |-> "start", session_id |-> session_id, content |-> <<>>,
     error |-> "", message_id |-> -1]
ChunkEvent(chunk) ==
    [type |-> "chunk", session_id |-> <<>>, content |-> chunk,
     error |-> "", message_id |-> -1]
EndEvent(time) ==
    [type |-> "end", session_id |-> <<>>, content |-> <<>>,
     error |-> "", message_id |-> time]
ErrorEvent(error) ==
    [type |-> "error", session_id |-> <<>>, content |-> <<>>,
     error |-> error, message_id |-> -1]

\* The locals of a request thread that handles no request.
Idle == [pc |-> "idle", stack |-> <<>>, kind |-> "none",
         session_id |-> <<>>, message |-> <<>>, context |-> CtxEmpty,
         built |-> NoMessage, messages |-> <<>>, history |-> <<>>,
         adapter |-> "none", full_response |-> <<>>, pulls |-> 0,
         trimmed |-> FALSE, events |-> <<>>, resp |-> NoResponse, err |-> "none",
         fresh |-> FALSE,
         received |-> <<>>, current_tool_block |-> <<>>, tool_input_json |-> <<>>,
         tool_result |-> <<>>, arg |-> <<>>, result |-> <<>>, aliased |-> FALSE,
         loop |-> "none", api_messages |-> <<>>,
      calls |-> <<>>]

(* ------------------------------- state --------------------------------- *)
VARIABLES
    chat_enabled,   \* config.CHAT_ENABLED
    client_ok,      \* claude_client is not None
    flask_session,  \* flask.session of the browser: the keys that hold True
    sessions,       \* session_manager.sessions
    lock,           \* owner of session_manager._lock
    now,            \* datetime.now(), in hours
    minted,         \* number of uuid4() values drawn so far
    budget,         \* requests the clients may still issue
    th,             \* th[t]: the locals of request thread t
    spc,            \* position of the cleanup thread
    cutoff_time,    \* cleanup_expired_sessions' cutoff_time
    expired_sessions \* cleanup_expired_sessions' expired_sessions

vars == <<chat_enabled, client_ok, flask_session, sessions, lock, now, minted, budget, th,
          spc, cutoff_time, expired_sessions>>

cleanup == <<spc, cutoff_time, expired_sessions>>

config == <<chat_enabled, client_ok, flask_session>>

\* session_manager.py:37-41
NewSession(time) == [created_at |-> time, last_activity |-> time, messages |-> <<>>]

Init ==
    /\ chat_enabled \in BOOLEAN
    /\ client_ok \in BOOLEAN
    /\ flask_session = {}
    /\ sessions = [id \in {} |-> NewSession(0)]
    /\ lock = Free
    /\ now = 0
    /\ minted = 0
    /\ budget = MaxRequests
    /\ th = [t \in Threads |-> Idle]
    /\ spc = "sleep"
    /\ cutoff_time = 0
    /\ expired_sessions = {}

\* The uuids a client can name: a uuid4() value reaches the clients in the
\* response of the request that drew it (api.py:54-57), not before.
Known == { Uuid(k) : k \in 1..minted }
             \ { th[t].session_id : t \in { u \in Threads : th[u].fresh /\ th[u].pc # "done" } }

(* --------------------------- control transfer -------------------------- *)
\* A function returns to its caller: the continuation on top of the stack.
Return(r) == [r EXCEPT !.pc = Head(r.stack), !.stack = Tail(r.stack)]

\* The response is complete.
Done(r) == [r EXCEPT !.pc = "done", !.stack = <<>>]

\* (An `except` that swallows the exception without emitting anything.)
GenExceptSilent(events, e) == events

\* streaming.py:93-101, the relay's `except Exception as e`.
GenExcept(events, e) == Append(events, ErrorEvent("processing: " \o e))

\* streaming.py:78-79, `finally: loop.close()`, which is passed only once
\* the loop of line 56 exists.
LoopClose(loop) == IF loop = "open" THEN "closed" ELSE loop

\* An exception e propagates to the handler that encloses the thread's
\* position: send_message's and get_history's `except` answer 500,
\* stream_response's answers an error stream, the relay's emits `error`.
Raise(r, e) ==
    LET x == [r EXCEPT !.err = e] IN
    CASE r.kind = "message" -> Done([x EXCEPT !.resp = [NoResponse EXCEPT !.status = 500]])
      [] r.kind = "history" -> Done([x EXCEPT !.resp = [NoResponse EXCEPT !.status = 500]])
      [] r.kind = "stream"  -> Done([x EXCEPT !.events = <<ErrorEvent("Internal server error")>>])
      [] r.kind = "gen"     -> Done([x EXCEPT !.events = GenExcept(r.events, e),
                                              !.loop = LoopClose(r.loop)])

Set(t, r) == th' = [th EXCEPT ![t] = r]

(* ---------------------------- session store ---------------------------- *)
Put(ss, id, session) ==
    [k \in DOMAIN ss \cup {id} |-> IF k = id THEN session ELSE ss[k]]

\* (A trim that keeps the oldest messages: messages[:MAX_HISTORY_LENGTH].)
TrimHistoryKeepsOldest(messages) ==
    IF Len(messages) > MAX_HISTORY_LENGTH
    THEN SubSeq(messages, 1, MAX_HISTORY_LENGTH)
    ELSE messages

\* session_manager.py:63-64
TrimHistory(messages) ==
    IF Len(messages) > MAX_HISTORY_LENGTH
    THEN SubSeq(messages, Len(messages) - MAX_HISTORY_LENGTH + 1, Len(messages))
    ELSE messages

\* session_manager.py:58-64
AppendMessage(session, message, time) ==
    [session EXCEPT !.messages = TrimHistory(Append(session.messages, message)),
                    !.last_activity = time]

\* `with self._lock:` is entered.
Locked(p) ==
    CASE p = "cs_touch_acq" -> "cs_touch"
      [] p = "cs_new_acq"   -> "cs_new"
      [] p = "am_acq"       -> "am_locked"
      [] p = "gm_acq"       -> "gm_locked"
      [] p = "ua_acq"       -> "ua_locked"

Acquire(t) ==
    /\ th[t].pc \in {"cs_touch_acq", "cs_new_acq", "am_acq", "gm_acq", "ua_acq"}
    /\ lock = Free
    /\ lock' = t
    /\ Set(t, [th[t] EXCEPT !.pc = Locked(th[t].pc)])
    /\ UNCHANGED <<config, sessions, now, minted, budget, cleanup>>

\* create_session, line 26 and lines 33-34
CreateSessionCheck(t) ==
    LET r == th[t] IN
    /\ r.pc = "cs_check"
    /\ IF r.session_id # <<>> /\ r.session_id \in DOMAIN sessions
       THEN /\ Set(t, [r EXCEPT !.pc = "cs_touch_acq"])
            /\ UNCHANGED minted
       ELSE IF r.session_id = <<>>
       THEN /\ minted < MaxUuids
            /\ minted' = minted + 1
            /\ Set(t, [r EXCEPT !.pc = "cs_new_acq", !.session_id = Uuid(minted + 1),
                                 !.fresh = TRUE])
       ELSE /\ Set(t, [r EXCEPT !.pc = "cs_new_acq"])
            /\ UNCHANGED minted
    /\ UNCHANGED <<config, sessions, lock, now, budget, cleanup>>

\* create_session, lines 28-30
CreateSessionTouch(t) ==
    LET r == th[t] IN
    /\ r.pc = "cs_touch"
    /\ lock = t
    /\ lock' = Free
    /\ IF r.session_id \in DOMAIN sessions
       THEN /\ sessions' = [sessions EXCEPT ![r.session_id].last_activity = now]
            /\ Set(t, Return(r))
       ELSE /\ Set(t, Raise(r, "KeyError"))
            /\ UNCHANGED sessions
    /\ UNCHANGED <<config, now, minted, budget, cleanup>>

\* create_session, lines 36-43
CreateSessionNew(t) ==
    LET r == th[t] IN
    /\ r.pc = "cs_new"
    /\ lock = t
    /\ lock' = Free
    /\ sessions' = Put(sessions, r.session_id, NewSession(now))
    /\ Set(t, Return(r))
    /\ UNCHANGED <<config, now, minted, budget, cleanup>>

\* The role and content add_message is called with: api.py:47 passes the
\* user's message, streaming.py:82 the relay's full response.
ArgRole(r) == IF r.kind = "message" THEN "user" ELSE "assistant"
ArgContent(r) == IF r.kind = "message" THEN r.message ELSE r.full_response

\* add_message, lines 47-48
AddMessageCheck(t) ==
    LET r == th[t] IN
    /\ r.pc = "am_check"
    /\ IF r.session_id \notin DOMAIN sessions
       THEN Set(t, [r EXCEPT !.pc = "cs_check", !.stack = <<"am_build">> \o r.stack])
       ELSE Set(t, [r EXCEPT !.pc = "am_build"])
    /\ UNCHANGED <<config, sessions, lock, now, minted, budget, cleanup>>

\* add_message, lines 50-55
AddMessageBuild(t) ==
    LET r == th[t] IN
    /\ r.pc = "am_build"
    /\ Set(t, [r EXCEPT !.pc = "am_acq",
                        !.built = [role |-> ArgRole(r), content |-> ArgContent(r),
                                   context |-> OrEmpty(r.context), timestamp |-> now]])
    /\ UNCHANGED <<config, sessions, lock, now, minted, budget, cleanup>>

\* add_message, lines 57-64
AddMessageLocked(t) ==
    LET r == th[t] IN
    /\ r.pc = "am_locked"
    /\ lock = t
    /\ lock' = Free
    /\ IF r.session_id \in DOMAIN sessions
       THEN /\ sessions' = [sessions EXCEPT ![r.session_id] = AppendMessage(@, r.built, now)]
            /\ Set(t, Return([r EXCEPT !.trimmed =
                    Len(sessions[r.session_id].messages) + 1 > MAX_HISTORY_LENGTH]))
       ELSE /\ Set(t, Raise(r, "KeyError"))
            /\ UNCHANGED sessions
    /\ UNCHANGED <<config, now, minted, budget, cleanup>>

\* get_messages, lines 68-69
GetMessagesCheck(t) ==
    LET r == th[t] IN
    /\ r.pc = "gm_check"
    /\ IF r.session_id \notin DOMAIN sessions
       THEN Set(t, Return([r EXCEPT !.messages = <<>>]))
       ELSE Set(t, [r EXCEPT !.pc = "gm_acq"])
    /\ UNCHANGED <<config, sessions, lock, now, minted, budget, cleanup>>

\* (A get_messages that takes the lock and returns without releasing it.)
GetMessagesLockedKeepsLock(t) ==
    LET r == th[t] IN
    /\ r.pc = "gm_locked"
    /\ lock = t
    /\ IF r.session_id \in DOMAIN sessions
       THEN Set(t, Return([r EXCEPT !.messages = sessions[r.session_id].messages]))
       ELSE Set(t, Raise(r, "KeyError"))
    /\ UNCHANGED <<config, sessions, lock, now, minted, budget, cleanup>>

\* (A get_messages that returns the stored list itself.)
GetMessagesLockedWithoutCopy(t) ==
    LET r == th[t] IN
    /\ r.pc = "gm_locked"
    /\ lock = t
    /\ lock' = Free
    /\ IF r.session_id \in DOMAIN sessions
       THEN Set(t, Return([r EXCEPT !.messages = sessions[r.session_id].messages,
                                    !.aliased = TRUE]))
       ELSE Set(t, Raise(r, "KeyError"))
    /\ UNCHANGED <<config, sessions, now, minted, budget, cleanup>>

\* get_messages, lines 71-72: the list returned is a copy of the stored one.
GetMessagesLocked(t) ==
    LET r == th[t] IN
    /\ r.pc = "gm_locked"
    /\ lock = t
    /\ lock' = Free
    /\ IF r.session_id \in DOMAIN sessions
       THEN Set(t, Return([r EXCEPT !.messages = sessions[r.session_id].messages,
                                    !.aliased = FALSE]))
       ELSE Set(t, Raise(r, "KeyError"))
    /\ UNCHANGED <<config, sessions, now, minted, budget, cleanup>>

\* The list a caller of get_messages holds: its own list, or the stored
\* list when the two are one object.
HeldMessages(ss, r) ==
    IF r.aliased /\ r.session_id \in DOMAIN ss THEN ss[r.session_id].messages
    ELSE r.messages

\* session_manager.get_messages(session_id), called on its own.
GetMessages(t) ==
    /\ th[t].pc = "idle"
    /\ budget > 0
    /\ budget' = budget - 1
    /\ \E id \in ClientIds \cup Known :
         Set(t, [Idle EXCEPT !.kind = "get_messages", !.session_id = id,
                             !.pc = "gm_check", !.stack = <<"done">>])
    /\ UNCHANGED <<config, sessions, lock, now, minted, cleanup>>

\* update_activity, line 95
UpdateActivityCheck(t) ==
    LET r == th[t] IN
    /\ r.pc = "ua_check"
    /\ IF r.session_id \in DOMAIN sessions
       THEN Set(t, [r EXCEPT !.pc = "ua_acq"])
       ELSE Set(t, Return(r))
    /\ UNCHANGED <<config, sessions, lock, now, minted, budget, cleanup>>

\* update_activity, lines 96-97
UpdateActivityLocked(t) ==
    LET r == th[t] IN
    /\ r.pc = "ua_locked"
    /\ lock = t
    /\ lock' = Free
    /\ IF r.session_id \in DOMAIN sessions
       THEN /\ sessions' = [sessions EXCEPT ![r.session_id].last_activity = now]
            /\ Set(t, Return(r))
       ELSE /\ Set(t, Raise(r, "KeyError"))
            /\ UNCHANGED sessions
    /\ UNCHANGED <<config, now, minted, budget, cleanup>>

\* (A sweep that goes by the creation time of a session.)
ExpiredSessionsByCreation(ss, cutoff) == { id \in DOMAIN ss : ss[id].created_at < cutoff }

\* cleanup_expired_sessions, lines 105-107
ExpiredSessions(ss, cutoff) == { id \in DOMAIN ss : ss[id].last_activity < cutoff }

\* cleanup_worker wakes up; cleanup_expired_sessions, lines 101-104: the
\* cutoff is computed and the lock taken.
CleanupStart ==
    /\ spc = "sleep"
    /\ lock = Free
    /\ lock' = Sweeper
    /\ cutoff_time' = now - SESSION_TIMEOUT_HOURS
    /\ spc' = "locked"
    /\ UNCHANGED <<config, sessions, now, minted, budget, th, expired_sessions>>

\* cleanup_expired_sessions, lines 109-110
Remove(ss, ids) == [id \in DOMAIN ss \ ids |-> ss[id]]

\* cleanup_expired_sessions, lines 105-110
CleanupLocked ==
    /\ spc = "locked"
    /\ lock = Sweeper
    /\ lock' = Free
    /\ expired_sessions' = ExpiredSessions(sessions, cutoff_time)
    /\ sessions' = Remove(sessions, expired_sessions')
    /\ spc' = "report"
    /\ UNCHANGED <<config, now, minted, budget, th, cutoff_time>>

\* cleanup_expired_sessions, lines 112-113; cleanup_worker sleeps again.
CleanupReport ==
    /\ spc = "report"
    /\ spc' = "sleep"
    /\ cutoff_time' = 0
    /\ expired_sessions' = {}
    /\ UNCHANGED <<config, sessions, lock, now, minted, budget, th>>

\* Time passes.
Tick ==
    /\ now < MaxTime
    /\ now' = now + 1
    /\ UNCHANGED <<config, sessions, lock, minted, budget, th, cleanup>>

(* ------------------------------ chat routes ---------------------------- *)
\* The `context` a client sends along with a message: a dict with "b", null
\* with the other messages.
ContextOf(message) == IF message = <<"b">> THEN CtxRoot ELSE CtxNone

\* request.get_json() of a POST /message: no body, or a body with the
\* three keys the handler reads.
Bodies ==
    { [has_data |-> FALSE, message |-> <<>>, session_id |-> <<>>, context |-> CtxEmpty] }
    \cup { [has_data |-> TRUE, message |-> m, session_id |-> id, context |-> ContextOf(m)] :
             m \in RawMessages, id \in RawSessionIds(Known) }

\* Requests that are to draw a uuid4() and have not drawn it yet.
Minting == { t \in Threads : th[t].pc = "cs_check" /\ th[t].session_id = <<>> }

\* (A validation that tests the message for emptiness before it is trimmed.)
RejectionWithoutTrim(enabled, body) ==
    IF ~enabled THEN 503
    ELSE IF ~body.has_data THEN 400
    ELSE IF body.message = <<>> THEN 400
    ELSE IF Len(Strip(body.message)) > MESSAGE_LIMIT THEN 400
    ELSE 0

\* api.py:21-38, what send_message answers before any session work
\* (0: the request is accepted).
Rejection(enabled, body) ==
    IF ~enabled THEN 503
    ELSE IF ~body.has_data THEN 400
    ELSE IF Strip(body.message) = <<>> THEN 400
    ELSE IF Len(Strip(body.message)) > MESSAGE_LIMIT THEN 400
    ELSE 0

\* send_message, lines 21-47: validation, then create_session and
\* add_message are called.
SendMessage(t) ==
    /\ th[t].pc = "idle"
    /\ budget > 0
    /\ budget' = budget - 1
    /\ \E body \in Bodies :
         LET r == [Idle EXCEPT !.kind = "message"]
             status == Rejection(chat_enabled, body)
         IN  IF status # 0
             THEN Set(t, Done([r EXCEPT !.resp = [NoResponse EXCEPT !.status = status]]))
             ELSE /\ Strip(body.session_id) = <<>> =>
                        minted + Cardinality(Minting) < MaxUuids
                  /\ Set(t, [r EXCEPT !.pc = "cs_check",
                                      !.stack = <<"am_check", "sm_ok">>,
                                      !.message = Strip(body.message),
                                      !.session_id = Strip(body.session_id),
                                      !.context = body.context])
    /\ UNCHANGED <<config, sessions, lock, now, minted, cleanup>>

\* send_message, lines 54-57
SendMessageOk(t) ==
    LET r == th[t] IN
    /\ r.pc = "sm_ok"
    /\ Set(t, Done([r EXCEPT !.resp = [NoResponse EXCEPT !.status = 200,
                                                        !.session_id = r.session_id]]))
    /\ UNCHANGED <<config, sessions, lock, now, minted, budget, cleanup>>

\* The session ids of the URLs the clients request.
UrlIds == ClientIds \cup Known

\* create_error_sse_response
ErrorStream(r, error) == Done([r EXCEPT !.events = <<ErrorEvent(error)>>])

\* (A stream endpoint that creates the session it is asked for.)
StreamResponseCreatesSession(t) ==
    /\ th[t].pc = "idle"
    /\ budget > 0
    /\ budget' = budget - 1
    /\ \E id \in UrlIds :
         LET r == [Idle EXCEPT !.kind = "stream", !.session_id = id] IN
         /\ Set(t, [r EXCEPT !.pc = "gm_check", !.stack = <<"sr_scan">>])
         /\ sessions' = IF id \in DOMAIN sessions THEN sessions
                        ELSE Put(sessions, id, NewSession(now))
    /\ UNCHANGED <<config, lock, now, minted, cleanup>>

\* stream_response, lines 69-80
StreamResponse(t) ==
    /\ th[t].pc = "idle"
    /\ budget > 0
    /\ budget' = budget - 1
    /\ \E id \in UrlIds :
         LET r == [Idle EXCEPT !.kind = "stream", !.session_id = id] IN
         IF ~chat_enabled THEN Set(t, ErrorStream(r, "Chat service is disabled"))
         ELSE IF id \notin DOMAIN sessions THEN Set(t, ErrorStream(r, "Invalid session ID"))
         ELSE Set(t, [r EXCEPT !.pc = "gm_check", !.stack = <<"sr_scan">>])
    /\ UNCHANGED <<config, sessions, lock, now, minted, cleanup>>

\* stream_response, lines 88-92: the last message of role user, NoMessage
\* when there is none.
RECURSIVE LastUser(_)
LastUser(messages) ==
    IF messages = <<>> THEN NoMessage
    ELSE IF Last(messages).role = "user" THEN Last(messages)
    ELSE LastUser(SubSeq(messages, 1, Len(messages) - 1))

\* stream_response, lines 81-98
StreamResponseScan(t) ==
    LET r == th[t]
        m == LastUser(r.messages)
    IN
    /\ r.pc = "sr_scan"
    /\ IF r.messages = <<>> THEN Set(t, ErrorStream(r, "No messages found in session"))
       ELSE IF m.content = <<>> THEN Set(t, ErrorStream(r, "No user message found"))
       ELSE Set(t, [r EXCEPT !.message = m.content, !.context = m.context,
                             !.pc = "ua_check", !.stack = <<"gen_start">>])
    /\ UNCHANGED <<config, sessions, lock, now, minted, budget, cleanup>>

\* get_history, lines 116-126
GetHistory(t) ==
    /\ th[t].pc = "idle"
    /\ budget > 0
    /\ budget' = budget - 1
    /\ \E id \in UrlIds :
         LET r == [Idle EXCEPT !.kind = "history", !.session_id = id] IN
         IF ~chat_enabled
         THEN Set(t, Done([r EXCEPT !.resp = [NoResponse EXCEPT !.status = 503]]))
         ELSE IF id \notin DOMAIN sessions
         THEN Set(t, Done([r EXCEPT !.resp = [NoResponse EXCEPT !.status = 200]]))
         ELSE Set(t, [r EXCEPT !.pc = "gm_check", !.stack = <<"gh_format">>])
    /\ UNCHANGED <<config, sessions, lock, now, minted, cleanup>>

\* get_history, lines 129-135
FormatMessages(messages) ==
    [i \in 1..Len(messages) |->
        [role |-> messages[i].role, content |-> messages[i].content,
         timestamp |-> messages[i].timestamp]]

\* get_history, lines 122-137, as one call: what GET /history/<id> answers
\* against the store ss.
HistoryView(ss, id) == IF id \in DOMAIN ss THEN FormatMessages(ss[id].messages) ELSE <<>>

\* get_history, lines 129-137
GetHistoryFormat(t) ==
    LET r == th[t] IN
    /\ r.pc = "gh_format"
    /\ Set(t, Done([r EXCEPT !.resp = [NoResponse EXCEPT !.status = 200,
                                        !.messages = FormatMessages(r.messages)]]))
    /\ UNCHANGED <<config, sessions, lock, now, minted, budget, cleanup>>

\* The response has been sent; the thread takes the next request.
Finish(t) ==
    /\ th[t].pc = "done"
    /\ Set(t, Idle)
    /\ UNCHANGED <<config, sessions, lock, now, minted, budget, cleanup>>

(* ------------------------------ stream relay --------------------------- *)
\* generate, lines 31-43 and the call of get_conversation_history
GenStart(t) ==
    LET r == [th[t] EXCEPT !.kind = "gen"] IN
    /\ th[t].pc = "gen_start"
    /\ IF ~client_ok
       THEN Set(t, Done([r EXCEPT !.events = <<ErrorEvent("Chat service is not available")>>]))
       ELSE Set(t, [r EXCEPT !.events = <<StartEvent(r.session_id)>>,
                             !.pc = "gm_check", !.stack = <<"gen_history">>])
    /\ UNCHANGED <<config, sessions, lock, now, minted, budget, cleanup>>

\* (A history that keeps the messages of every role.)
ConversationHistoryOfAllRoles(messages) ==
    [i \in 1..Len(messages) |-> [role |-> messages[i].role, content |-> messages[i].content]]

\* get_conversation_history, lines 79-87
RECURSIVE ConversationHistory(_)
ConversationHistory(messages) ==
    IF messages = <<>> THEN <<>>
    ELSE LET m == Head(messages) IN
         (IF m.role \in {"user", "assistant"}
          THEN <<[role |-> m.role, content |-> m.content]>> ELSE <<>>)
         \o ConversationHistory(Tail(messages))

\* format_context_for_prompt, lines 56-94, for the contexts of the model.
ContextInfo(context) ==
    IF context = CtxRoot THEN <<"\n\nCurrent context: ", "Current node: root">> ELSE <<>>

\* stream_response (claude_client.py), lines 108-120: the message list
\* submitted to the completion API.
ApiMessages(conversation_history, message, context) ==
    Append(conversation_history,
           [role |-> "user",
            content |-> message \o (IF Truthy(context) THEN ContextInfo(context) ELSE <<>>)])

\* generate, lines 46-70: the history is taken, the event loop created and
\* the adapter's generator opened; the generator builds its message list
\* from the history, the message and the context it was given.
GenHistory(t) ==
    LET r == th[t]
        history == ConversationHistory(r.messages)
    IN
    /\ r.pc = "gen_history"
    /\ Set(t, [r EXCEPT !.history = history,
                        !.api_messages = ApiMessages(history, r.message, r.context),
                        !.loop = "open",
                        !.full_response = <<>>, !.adapter = "open", !.pc = "gen_pull"])
    /\ UNCHANGED <<config, sessions, lock, now, minted, budget, cleanup>>

\* generate, lines 62-67 and 73-74: the adapter yields a fragment.
AdapterYield(t) ==
    LET r == th[t] IN
    /\ r.pc = "gen_pull"
    /\ r.pulls < MaxFragments
    /\ \E chunk \in Fragments :
         Set(t, [r EXCEPT !.full_response = r.full_response \o chunk,
                          !.events = Append(r.events, ChunkEvent(chunk)),
                          !.pulls = r.pulls + 1])
    /\ UNCHANGED <<config, sessions, lock, now, minted, budget, cleanup>>

\* (A relay that ends the stream without storing the response.)
AdapterStopWithoutAppend(t) ==
    LET r == th[t] IN
    /\ r.pc = "gen_pull"
    /\ Set(t, [r EXCEPT !.adapter = "exhausted", !.loop = LoopClose(r.loop),
                        !.pc = "gen_end", !.stack = <<>>])
    /\ UNCHANGED <<config, sessions, lock, now, minted, budget, cleanup>>

\* generate, lines 75-82: the adapter is exhausted, add_message is called.
AdapterStop(t) ==
    LET r == th[t] IN
    /\ r.pc = "gen_pull"
    /\ Set(t, [r EXCEPT !.adapter = "exhausted", !.loop = LoopClose(r.loop),
                        !.pc = "am_check", !.stack = <<"gen_end">>])
    /\ UNCHANGED <<config, sessions, lock, now, minted, budget, cleanup>>

\* (A relay that stores the partial response before it reports the error.)
AdapterRaisePersistsPartial(t) ==
    LET r == th[t]
        partial == [role |-> "assistant", content |-> r.full_response,
                    context |-> OrEmpty(r.context), timestamp |-> now]
    IN
    /\ r.pc = "gen_pull"
    /\ Set(t, Raise([r EXCEPT !.adapter = "raised"], "AdapterError"))
    /\ sessions' = IF r.session_id \in DOMAIN sessions
                   THEN [sessions EXCEPT ![r.session_id] = AppendMessage(@, partial, now)]
                   ELSE sessions
    /\ UNCHANGED <<config, lock, now, minted, budget, cleanup>>

\* generate, lines 73, 78-79 and 93-101: the adapter raises.
AdapterRaise(t) ==
    LET r == th[t] IN
    /\ r.pc = "gen_pull"
    /\ Set(t, Raise([r EXCEPT !.adapter = "raised"], "AdapterError"))
    /\ UNCHANGED <<config, sessions, lock, now, minted, budget, cleanup>>

\* (A relay that stores what it has received when the client goes away.)
GenClosePersistsPartial(t) ==
    LET r == th[t]
        partial == [role |-> "assistant", content |-> r.full_response,
                    context |-> OrEmpty(r.context), timestamp |-> now]
    IN
    /\ r.kind = "gen"
    /\ r.pc = "gen_pull" /\ r.events # <<>> /\ Last(r.events).type = "chunk"
    /\ Set(t, Done([r EXCEPT !.err = "GeneratorExit", !.loop = LoopClose(r.loop)]))
    /\ sessions' = IF r.session_id \in DOMAIN sessions
                   THEN [sessions EXCEPT ![r.session_id] = AppendMessage(@, partial, now)]
                   ELSE sessions
    /\ UNCHANGED <<config, lock, now, minted, budget, cleanup>>

\* generate, lines 40 and 73, 78-79: the response generator is closed while
\* it is suspended at a yield, after the start event or after a chunk (the
\* client has gone away).  GeneratorExit is no Exception: the `finally` of
\* the adapter loop runs, the `except` of line 93 does not.
GenClose(t) ==
    LET r == th[t] IN
    /\ r.kind = "gen"
    /\ \/ r.pc = "gm_check" /\ r.stack = <<"gen_history">>
       \/ r.pc = "gen_pull" /\ r.events # <<>> /\ Last(r.events).type = "chunk"
    /\ Set(t, Done([r EXCEPT !.err = "GeneratorExit", !.loop = LoopClose(r.loop)]))
    /\ UNCHANGED <<config, sessions, lock, now, minted, budget, cleanup>>

\* generate, lines 85-88
GenEnd(t) ==
    LET r == th[t] IN
    /\ r.pc = "gen_end"
    /\ Set(t, Done([r EXCEPT !.events = Append(r.events, EndEvent(now))]))
    /\ UNCHANGED <<config, sessions, lock, now, minted, budget, cleanup>>

(* -------------------------- completion adapter ------------------------- *)
\* The events of the completion API's stream (claude_client.py:157-180).
TextDelta(text) ==
    [type |-> "content_block_delta", delta |-> "text", text |-> text, name |-> <<>>]
InputJsonDelta(partial_json) ==
    [type |-> "content_block_delta", delta |-> "partial_json", text |-> partial_json,
     name |-> <<>>]
ToolUseStart(name) ==
    [type |-> "content_block_start", delta |-> "tool_use", text |-> <<>>, name |-> name]
TextStart ==
    [type |-> "content_block_start", delta |-> "text", text |-> <<>>, name |-> <<>>]
BlockStop ==
    [type |-> "content_block_stop", delta |-> "", text |-> <<>>, name |-> <<>>]
MessageStop ==
    [type |-> "message_stop", delta |-> "", text |-> <<>>, name |-> <<>>]

\* A name no registry key is advertised under.
UnknownTool == <<"n", "_", "t">>
\* The tool names the completion API may ask for.
ToolNames == { ClaudeName(tool_key) : tool_key \in Tools } \cup { UnknownTool }

\* What the tool provider does with a call: it answers with a content, or
\* the call raises (provider not configured, non-zero return code).
ProviderOutcomes ==
    { [ok |-> TRUE, value |-> <<"r">>],
      [ok |-> TRUE, value |-> <<" ">>],
      [ok |-> FALSE, value |-> <<"MCP server error">>] }

\* What the completion API raises.
ApiErrors == { <<"overloaded">> }

\* The pieces of a tool's input the completion API sends: the two halves of
\* the JSON text {"query":"q"}.
JsonOpen == "{\"query\":"
JsonClose == "\"q\"}"
PartialJson == { <<JsonOpen>>, <<JsonClose>> }

\* Arguments are sets of <<key, value>> pairs.
NoArguments == {}
QueryArguments(query) == { <<"query", query>> }

\* json.loads on the texts made of these pieces: the two halves in order
\* are the one text that parses.
JsonLoads(text) ==
    IF text = <<JsonOpen, JsonClose>>
    THEN [ok |-> TRUE, value |-> QueryArguments(<<"q">>)]
    ELSE [ok |-> FALSE, value |-> NoArguments]

\* stream_response, lines 186-190: the input of the tool call.
ToolInput(tool_input_json) ==
    IF tool_input_json = <<>> THEN NoArguments
    ELSE IF JsonLoads(tool_input_json).ok THEN JsonLoads(tool_input_json).value
    ELSE NoArguments

\* (A call_tool that asks the provider without looking the key up.)
CallToolWithoutLookup(tool_name, outcome) == outcome

\* mcp_client.call_tool, lines 70-86
CallTool(tool_name, outcome) ==
    IF tool_name \notin Tools
    THEN [ok |-> FALSE, value |-> <<"Tool ">> \o tool_name \o <<" not found">>]
    ELSE outcome

\* (A dispatcher that lets the exception of the call go to its caller.)
HandleToolUseRaises(name, outcome) ==
    LET result == CallTool(McpName(name), outcome) IN
    IF result.ok
    THEN [raised |-> FALSE, value |-> FormatMarkdownResponse(result.value)]
    ELSE [raised |-> TRUE, value |-> result.value]

\* ClaudeClient.handle_tool_use, lines 216-245: the text it returns.
HandleToolUse(name, outcome) ==
    LET result == CallTool(McpName(name), outcome) IN
    IF result.ok
    THEN [raised |-> FALSE, value |-> FormatMarkdownResponse(result.value)]
    ELSE [raised |-> FALSE,
          value |-> <<"Tool error: ", "Error using tool ">> \o name \o <<": ">>
                    \o result.value]

\* The fragment of line 198.
ToolNotice(name) == <<"\n\n[Using ">> \o name \o <<"...]\n\n">>

\* The fragment of line 212.
Apology(e) ==
    <<"I apologize, but I encountered an error: ", "Error communicating with Claude: ">>
    \o e

\* generate, lines 62-67 and 73-74: the relay re-emits a fragment the adapter
\* yields.
Yield(r, chunk) ==
    [r EXCEPT !.full_response = r.full_response \o chunk,
              !.events = Append(r.events, ChunkEvent(chunk)),
              !.pulls = r.pulls + 1]

\* The adapter is between two events of the completion stream.
AtEvent(r) ==
    /\ r.pc = "gen_pull"
    /\ r.adapter = "open"
    /\ r.tool_result = <<>>
    /\ Len(r.received) < MaxEvents

\* stream_response, lines 105-131: an exception before the `try`
\* (format_context_for_prompt on a context that is not a dict of the shape
\* it expects) leaves the generator at the first pull.
AdapterSetupRaise(t) ==
    /\ th[t].received = <<>>
    /\ th[t].pulls = 0
    /\ Truthy(th[t].context)
    /\ AdapterRaise(t)

\* (An adapter that reads a text delta and yields nothing for it.)
AdapterTextDropped(t) ==
    LET r == th[t] IN
    /\ AtEvent(r)
    /\ \E text \in Fragments :
         Set(t, [r EXCEPT !.received = Append(r.received, TextDelta(text))])
    /\ UNCHANGED <<config, sessions, lock, now, minted, budget, cleanup>>

\* stream_response, lines 164-167: a text delta.
AdapterText(t) ==
    LET r == th[t] IN
    /\ AtEvent(r)
    /\ \E text \in Fragments :
         Set(t, Yield([r EXCEPT !.received = Append(r.received, TextDelta(text))], text))
    /\ UNCHANGED <<config, sessions, lock, now, minted, budget, cleanup>>

\* (An adapter that accumulates a piece whether or not a tool block is open.)
AdapterInputJsonOutsideBlock(t) ==
    LET r == th[t] IN
    /\ AtEvent(r)
    /\ \E partial_json \in PartialJson :
         Set(t, [r EXCEPT !.received = Append(r.received, InputJsonDelta(partial_json)),
                          !.tool_input_json = r.tool_input_json \o partial_json])
    /\ UNCHANGED <<config, sessions, lock, now, minted, budget, cleanup>>

\* stream_response, lines 168-171: a piece of a tool's input.
AdapterInputJson(t) ==
    LET r == th[t] IN
    /\ AtEvent(r)
    /\ \E partial_json \in PartialJson :
         Set(t, [r EXCEPT !.received = Append(r.received, InputJsonDelta(partial_json)),
                          !.tool_input_json =
                              IF r.current_tool_block # <<>>
                              THEN r.tool_input_json \o partial_json
                              ELSE r.tool_input_json])
    /\ UNCHANGED <<config, sessions, lock, now, minted, budget, cleanup>>

\* stream_response, lines 174-177: a block starts.
AdapterBlockStart(t) ==
    LET r == th[t] IN
    /\ AtEvent(r)
    /\ \/ \E name \in ToolNames :
            Set(t, [r EXCEPT !.received = Append(r.received, ToolUseStart(name)),
                             !.current_tool_block = name,
                             !.tool_input_json = <<>>])
       \/ Set(t, [r EXCEPT !.received = Append(r.received, TextStart)])
    /\ UNCHANGED <<config, sessions, lock, now, minted, budget, cleanup>>

\* stream_response, lines 180-198 and 201-202: a block stops; the tool call
\* it completes is dispatched, and the notice is yielded when the result is
\* not empty.
AdapterBlockStop(t) ==
    LET q == [th[t] EXCEPT !.received = Append(th[t].received, BlockStop)]
        r == [q EXCEPT !.calls = Append(q.calls,
                                        [name |-> q.current_tool_block,
                                         input |-> ToolInput(q.tool_input_json)])]
    IN
    /\ AtEvent(th[t])
    /\ IF q.current_tool_block = <<>>
       THEN Set(t, q)
       ELSE \E outcome \in ProviderOutcomes :
              LET tool_result == HandleToolUse(r.current_tool_block, outcome) IN
              IF tool_result.raised
              THEN Set(t, Yield([r EXCEPT !.adapter = "failed"], Apology(tool_result.value)))
              ELSE IF tool_result.value # <<>>
              THEN Set(t, Yield([r EXCEPT !.tool_result = tool_result.value],
                                ToolNotice(r.current_tool_block)))
              ELSE Set(t, [r EXCEPT !.current_tool_block = <<>>,
                                    !.tool_input_json = <<>>])
    /\ UNCHANGED <<config, sessions, lock, now, minted, budget, cleanup>>

\* (An adapter that drops the tool's result after the notice.)
AdapterToolResultDropped(t) ==
    LET r == th[t] IN
    /\ r.pc = "gen_pull"
    /\ r.adapter = "open"
    /\ r.tool_result # <<>>
    /\ Set(t, [r EXCEPT !.tool_result = <<>>,
                        !.current_tool_block = <<>>,
                        !.tool_input_json = <<>>])
    /\ UNCHANGED <<config, sessions, lock, now, minted, budget, cleanup>>

\* stream_response, lines 199-202: the tool's result is yielded.
AdapterToolResult(t) ==
    LET r == th[t] IN
    /\ r.pc = "gen_pull"
    /\ r.adapter = "open"
    /\ r.tool_result # <<>>
    /\ Set(t, Yield([r EXCEPT !.tool_result = <<>>,
                              !.current_tool_block = <<>>,
                              !.tool_input_json = <<>>], r.tool_result))
    /\ UNCHANGED <<config, sessions, lock, now, minted, budget, cleanup>>

\* stream_response, line 163: an event of another type.
AdapterOther(t) ==
    LET r == th[t] IN
    /\ AtEvent(r)
    /\ Set(t, [r EXCEPT !.received = Append(r.received, MessageStop)])
    /\ UNCHANGED <<config, sessions, lock, now, minted, budget, cleanup>>

\* (An adapter that lets the exception of the completion API go to the relay.)
AdapterApiRaisePropagates(t) ==
    LET r == th[t] IN
    /\ r.pc = "gen_pull"
    /\ r.adapter = "open"
    /\ r.tool_result = <<>>
    /\ Set(t, Raise([r EXCEPT !.adapter = "failed"], "APIError"))
    /\ UNCHANGED <<config, sessions, lock, now, minted, budget, cleanup>>

\* stream_response, lines 147, 157 and 208-212: the completion API raises
\* when the stream is opened or when the next event is read.
AdapterApiRaise(t) ==
    LET r == th[t] IN
    /\ r.pc = "gen_pull"
    /\ r.adapter = "open"
    /\ r.tool_result = <<>>
    /\ \E e \in ApiErrors : Set(t, Yield([r EXCEPT !.adapter = "failed"], Apology(e)))
    /\ UNCHANGED <<config, sessions, lock, now, minted, budget, cleanup>>

\* The generator returns: the completion stream is over (line 203), or the
\* apology has been yielded (line 212); generate, lines 75-82.
AdapterReturn(t) ==
    LET r == th[t] IN
    /\ r.pc = "gen_pull"
    /\ r.adapter \in {"open", "failed"}
    /\ r.tool_result = <<>>
    /\ Set(t, [r EXCEPT !.adapter = IF r.adapter = "open" THEN "exhausted" ELSE "apologized",
                        !.loop = LoopClose(r.loop),
                        !.pc = "am_check", !.stack = <<"gen_end">>])
    /\ UNCHANGED <<config, sessions, lock, now, minted, budget, cleanup>>

(* ---------------------------- specification ---------------------------- *)
\* The steps of the session store that thread t takes under send_message
\* and get_history.
StoreStep(t) ==
    \/ Acquire(t)
    \/ CreateSessionCheck(t)
    \/ CreateSessionTouch(t)
    \/ CreateSessionNew(t)
    \/ AddMessageCheck(t)
    \/ AddMessageBuild(t)
    \/ AddMessageLocked(t)
    \/ GetMessagesCheck(t)
    \/ GetMessagesLocked(t)

\* The cleanup thread.
Cleanup ==
    \/ CleanupStart
    \/ CleanupLocked
    \/ CleanupReport

\* One client posts messages and reads the history while the cleanup thread
\* runs and time passes.
Next ==
    \/ \E t \in Serial :
         \/ SendMessage(t)
         \/ SendMessageOk(t)
         \/ GetHistory(t)
         \/ GetHistoryFormat(t)
         \/ Finish(t)
         \/ StoreStep(t)
    \/ Cleanup
    \/ Tick

\* send_message and get_history do not read claude_client.
InitPost == Init /\ client_ok

Spec == InitPost /\ [][Next]_vars

\* The store after one accepted POST /message {message: "a", session_id: "c"}
\* at time 0 (empty when chat is disabled: every POST is rejected then).
Posted(context) ==
    [id \in ClientIds |->
        [created_at |-> 0, last_activity |-> 0,
         messages |-> << [role |-> "user", content |-> <<"a">>,
                          context |-> OrEmpty(context), timestamp |-> 0] >>]]

InitRelay ==
    /\ chat_enabled \in BOOLEAN
    /\ client_ok \in BOOLEAN
    /\ flask_session = {}
    /\ \E context \in Contexts :
          sessions = IF chat_enabled THEN Posted(context) ELSE [id \in {} |-> NewSession(0)]
    /\ lock = Free
    /\ now = 0
    /\ minted = 0
    /\ budget = MaxStreams
    /\ th = [t \in Threads |-> Idle]
    /\ spc = "sleep"
    /\ cutoff_time = 0
    /\ expired_sessions = {}

\* One client opens streams on its conversation while the cleanup thread
\* runs and time passes.
NextRelay ==
    \/ \E t \in Serial :
         \/ StreamResponse(t)
         \/ StreamResponseScan(t)
         \/ GenStart(t)
         \/ GenHistory(t)
         \/ AdapterYield(t)
         \/ AdapterStop(t)
         \/ AdapterRaise(t)
         \/ GenEnd(t)
         \/ Finish(t)
         \/ Acquire(t)
         \/ GetMessagesCheck(t)
         \/ GetMessagesLocked(t)
         \/ UpdateActivityCheck(t)
         \/ UpdateActivityLocked(t)
         \/ AddMessageCheck(t)
         \/ AddMessageBuild(t)
         \/ AddMessageLocked(t)
         \/ CreateSessionCheck(t)
         \/ CreateSessionNew(t)
    \/ Cleanup
    \/ Tick

SpecRelay == InitRelay /\ [][NextRelay]_vars

\* One client posts message after message.
InitAppend ==
    /\ chat_enabled \in BOOLEAN
    /\ client_ok \in BOOLEAN
    /\ flask_session = {}
    /\ sessions = [id \in {} |-> NewSession(0)]
    /\ lock = Free
    /\ now = 0
    /\ minted = 0
    /\ budget = MaxAppends
    /\ th = [t \in Threads |-> Idle]
    /\ spc = "sleep"
    /\ cutoff_time = 0
    /\ expired_sessions = {}

NextAppend ==
    \E t \in Serial :
        \/ SendMessage(t)
        \/ SendMessageOk(t)
        \/ Finish(t)
        \/ Acquire(t)
        \/ CreateSessionCheck(t)
        \/ CreateSessionTouch(t)
        \/ CreateSessionNew(t)
        \/ AddMessageCheck(t)
        \/ AddMessageBuild(t)
        \/ AddMessageLocked(t)

SpecAppend == InitAppend /\ [][NextAppend]_vars

\* Two request threads serve POST /message concurrently.
NextRace ==
    \E t \in Threads :
        \/ SendMessage(t)
        \/ SendMessageOk(t)
        \/ Finish(t)
        \/ Acquire(t)
        \/ CreateSessionCheck(t)
        \/ CreateSessionTouch(t)
        \/ CreateSessionNew(t)
        \/ AddMessageCheck(t)
        \/ AddMessageBuild(t)
        \/ AddMessageLocked(t)

SpecRace == Init /\ [][NextRace]_vars

\* A stream is served on one thread while the other threads serve
\* POST /message.
InitShared ==
    /\ chat_enabled = TRUE
    /\ client_ok = TRUE
    /\ flask_session = {}
    /\ \E context \in Contexts : sessions = Posted(context)
    /\ lock = Free
    /\ now = 0
    /\ minted = 0
    /\ budget = MaxRequests
    /\ th = [t \in Threads |-> Idle]
    /\ spc = "sleep"
    /\ cutoff_time = 0
    /\ expired_sessions = {}

NextShared ==
    \/ \E t \in Serial :
         \/ StreamResponse(t)
         \/ StreamResponseScan(t)
         \/ GenStart(t)
         \/ GenHistory(t)
         \/ AdapterYield(t)
         \/ AdapterStop(t)
         \/ AdapterRaise(t)
         \/ GenEnd(t)
         \/ GetMessagesCheck(t)
         \/ GetMessagesLocked(t)
         \/ UpdateActivityCheck(t)
         \/ UpdateActivityLocked(t)
    \/ \E t \in Threads \ Serial :
         \/ SendMessage(t)
         \/ SendMessageOk(t)
         \/ CreateSessionTouch(t)
    \/ \E t \in Threads :
         \/ Acquire(t)
         \/ CreateSessionCheck(t)
         \/ CreateSessionNew(t)
         \/ AddMessageCheck(t)
         \/ AddMessageBuild(t)
         \/ AddMessageLocked(t)

SpecShared == InitShared /\ [][NextShared]_vars

\* One client opens a stream on its conversation, whose last message came
\* with a page context; the completion API sends text and tool calls, and
\* the tool provider answers or fails.
InitTool ==
    /\ chat_enabled = TRUE
    /\ client_ok = TRUE
    /\ flask_session = {}
    /\ sessions = Posted(CtxRoot)
    /\ lock = Free
    /\ now = 0
    /\ minted = 0
    /\ budget = MaxStreams
    /\ th = [t \in Threads |-> Idle]
    /\ spc = "sleep"
    /\ cutoff_time = 0
    /\ expired_sessions = {}

NextTool ==
    \E t \in Serial :
        \/ StreamResponse(t)
        \/ StreamResponseScan(t)
        \/ GenStart(t)
        \/ GenHistory(t)
        \/ AdapterSetupRaise(t)
        \/ AdapterText(t)
        \/ AdapterInputJson(t)
        \/ AdapterBlockStart(t)
        \/ AdapterBlockStop(t)
        \/ AdapterToolResult(t)
        \/ AdapterOther(t)
        \/ AdapterApiRaise(t)
        \/ AdapterReturn(t)
        \/ GenEnd(t)
        \/ Acquire(t)
        \/ GetMessagesCheck(t)
        \/ GetMessagesLocked(t)
        \/ UpdateActivityCheck(t)
        \/ UpdateActivityLocked(t)
        \/ AddMessageCheck(t)
        \/ AddMessageBuild(t)
        \/ AddMessageLocked(t)

SpecTool == InitTool /\ [][NextTool]_vars

\* One thread reads the history, through the route and through the store's
\* get_messages, while another serves POST /message.
InitRead ==
    /\ chat_enabled = TRUE
    /\ client_ok = TRUE
    /\ flask_session = {}
    /\ \E context \in Contexts :
          sessions \in { [id \in {} |-> NewSession(0)], Posted(context) }
    /\ lock = Free
    /\ now = 0
    /\ minted = 0
    /\ budget = MaxRequests
    /\ th = [t \in Threads |-> Idle]
    /\ spc = "sleep"
    /\ cutoff_time = 0
    /\ expired_sessions = {}

NextRead ==
    \/ \E t \in Serial :
         \/ GetMessages(t)
         \/ GetHistory(t)
         \/ GetHistoryFormat(t)
         \/ GetMessagesCheck(t)
         \/ GetMessagesLocked(t)
         \/ Finish(t)
    \/ \E t \in Threads \ Serial :
         \/ SendMessage(t)
         \/ SendMessageOk(t)
         \/ CreateSessionCheck(t)
         \/ CreateSessionTouch(t)
         \/ CreateSessionNew(t)
         \/ AddMessageCheck(t)
         \/ AddMessageBuild(t)
         \/ AddMessageLocked(t)
         \/ Finish(t)
    \/ \E t \in Threads : Acquire(t)

SpecRead == InitRead /\ [][NextRead]_vars

\* One client posts messages to sessions of a store that starts empty and
\* opens their streams, one request after another; it may go away while a
\* stream is open.
InitChat ==
    /\ chat_enabled = TRUE
    /\ client_ok = TRUE
    /\ flask_session = {}
    /\ sessions = [id \in {} |-> NewSession(0)]
    /\ lock = Free
    /\ now = 0
    /\ minted = 0
    /\ budget = MaxChat
    /\ th = [t \in Threads |-> Idle]
    /\ spc = "sleep"
    /\ cutoff_time = 0
    /\ expired_sessions = {}

NextChat ==
    \E t \in Serial :
        \/ SendMessage(t)
        \/ SendMessageOk(t)
        \/ StreamResponse(t)
        \/ StreamResponseScan(t)
        \/ GenStart(t)
        \/ GenHistory(t)
        \/ AdapterYield(t)
        \/ AdapterStop(t)
        \/ GenClose(t)
        \/ GenEnd(t)
        \/ Finish(t)
        \/ Acquire(t)
        \/ CreateSessionCheck(t)
        \/ CreateSessionTouch(t)
        \/ CreateSessionNew(t)
        \/ AddMessageCheck(t)
        \/ AddMessageBuild(t)
        \/ AddMessageLocked(t)
        \/ GetMessagesCheck(t)
        \/ GetMessagesLocked(t)
        \/ UpdateActivityCheck(t)
        \/ UpdateActivityLocked(t)

SpecChat == InitChat /\ [][NextChat]_vars

\* The stores a stream request may find: no session; a session created by
\* a POST whose message is not appended yet; a session whose user messages
\* were all trimmed away by later replies; a session after a POST; a session
\* after a POST and its reply.
StoredSession(messages) ==
    [id \in ClientIds |-> [created_at |-> 0, last_activity |-> 0, messages |-> messages]]
Reply == [role |-> "assistant", content |-> <<"x">>, context |-> CtxEmpty, timestamp |-> 0]
StreamStores ==
    { [id \in {} |-> NewSession(0)],
      StoredSession(<<>>),
      StoredSession([i \in 1..MAX_HISTORY_LENGTH |-> Reply]),
      Posted(CtxNone),
      Posted(CtxRoot),
      StoredSession(Append(Posted(CtxRoot)[<<"c">>].messages, Reply)) }

InitStream ==
    /\ chat_enabled = TRUE
    /\ client_ok = TRUE
    /\ flask_session = {}
    /\ sessions \in StreamStores
    /\ lock = Free
    /\ now = 0
    /\ minted = 0
    /\ budget = MaxRequests
    /\ th = [t \in Threads |-> Idle]
    /\ spc = "sleep"
    /\ cutoff_time = 0
    /\ expired_sessions = {}

\* One client opens streams, one after another.
NextStream ==
    \E t \in Serial :
        \/ StreamResponse(t)
        \/ StreamResponseScan(t)
        \/ GenStart(t)
        \/ GenHistory(t)
        \/ AdapterYield(t)
        \/ AdapterStop(t)
        \/ GenEnd(t)
        \/ Finish(t)
        \/ Acquire(t)
        \/ GetMessagesCheck(t)
        \/ GetMessagesLocked(t)
        \/ UpdateActivityCheck(t)
        \/ UpdateActivityLocked(t)
        \/ AddMessageCheck(t)
        \/ AddMessageBuild(t)
        \/ AddMessageLocked(t)

SpecStream == InitStream /\ [][NextStream]_vars

(* ------------------------------ login gate ----------------------------- *)
\* server.py, line 30
PASSCODE == <<"182638">>

\* request.form.get('password'): None, the passcode, other texts.
None == <<>>
Passwords == { None, PASSCODE, <<"0">>, <<"">>, <<"182638", " ">> }

\* session.get('authenticated')
Authenticated(s) == "authenticated" \in s

\* What a view returns.
Redirect(endpoint) == [status |-> 302, location |-> endpoint, template |-> "", error |-> ""]
RenderTemplate(template, error) ==
    [status |-> 200, location |-> "", template |-> template, error |-> error]

\* (A login that accepts every password that is given.)
LoginAcceptsAnyPassword(t) ==
    /\ th[t].pc = "idle"
    /\ budget > 0
    /\ budget' = budget - 1
    /\ \E method \in {"GET", "POST"}, password \in Passwords :
         LET r == [Idle EXCEPT !.kind = "login",
                               !.arg = [method |-> method, password |-> password]]
         IN
         IF Authenticated(flask_session)
         THEN /\ Set(t, Done([r EXCEPT !.result = Redirect("index")]))
              /\ UNCHANGED flask_session
         ELSE IF method = "POST" /\ password # None
         THEN /\ flask_session' = flask_session \cup {"authenticated"}
              /\ Set(t, Done([r EXCEPT !.result = Redirect("index")]))
         ELSE /\ Set(t, Done([r EXCEPT !.result = RenderTemplate("login.html", "")]))
              /\ UNCHANGED flask_session
    /\ UNCHANGED <<chat_enabled, client_ok, sessions, lock, now, minted, cleanup>>

\* login, lines 77-91
Login(t) ==
    /\ th[t].pc = "idle"
    /\ budget > 0
    /\ budget' = budget - 1
    /\ \E method \in {"GET", "POST"}, password \in Passwords :
         LET r == [Idle EXCEPT !.kind = "login",
                               !.arg = [method |-> method, password |-> password]]
         IN
         IF Authenticated(flask_session)
         THEN /\ Set(t, Done([r EXCEPT !.result = Redirect("index")]))
              /\ UNCHANGED flask_session
         ELSE IF method = "POST"
         THEN IF password = PASSCODE
              THEN /\ flask_session' = flask_session \cup {"authenticated"}
                   /\ Set(t, Done([r EXCEPT !.result = Redirect("index")]))
              ELSE /\ Set(t, Done([r EXCEPT !.result =
                                       RenderTemplate("login.html",
                                           "Invalid access code. Please try again.")]))
                   /\ UNCHANGED flask_session
         ELSE /\ Set(t, Done([r EXCEPT !.result = RenderTemplate("login.html", "")]))
              /\ UNCHANGED flask_session
    /\ UNCHANGED <<chat_enabled, client_ok, sessions, lock, now, minted, cleanup>>

\* logout, lines 93-97
Logout(t) ==
    /\ th[t].pc = "idle"
    /\ budget > 0
    /\ budget' = budget - 1
    /\ flask_session' = flask_session \ {"authenticated"}
    /\ Set(t, Done([Idle EXCEPT !.kind = "logout", !.result = Redirect("login")]))
    /\ UNCHANGED <<chat_enabled, client_ok, sessions, lock, now, minted, cleanup>>

\* index behind login_required, lines 32-39 and 99-103
Index(t) ==
    /\ th[t].pc = "idle"
    /\ budget > 0
    /\ budget' = budget - 1
    /\ IF ~Authenticated(flask_session)
       THEN Set(t, Done([Idle EXCEPT !.kind = "index", !.result = Redirect("login")]))
       ELSE Set(t, Done([Idle EXCEPT !.kind = "index",
                                     !.result = RenderTemplate("index.html", "")]))
    /\ UNCHANGED <<config, sessions, lock, now, minted, cleanup>>

\* A browser without a cookie.
InitLogin ==
    /\ chat_enabled = TRUE
    /\ client_ok = TRUE
    /\ flask_session = {}
    /\ sessions = [id \in {} |-> NewSession(0)]
    /\ lock = Free
    /\ now = 0
    /\ minted = 0
    /\ budget = MaxLogin
    /\ th = [t \in Threads |-> Idle]
    /\ spc = "sleep"
    /\ cutoff_time = 0
    /\ expired_sessions = {}

\* The requests of one browser, one after another.
NextLogin ==
    \E t \in Serial :
        \/ Login(t)
        \/ Logout(t)
        \/ Index(t)
        \/ Finish(t)

SpecLogin == InitLogin /\ [][NextLogin]_vars

(* ------------------------------ functions ------------------------------ *)
\* The sequences over S of length at most n.
SeqsUpTo(S, n) == UNION { [1..k -> S] : k \in 0..n }

\* Registry keys "server:tool": texts that hold a colon.
ToolKeys ==
    { key \in SeqsUpTo({"a", "_", ":"}, MaxKey) : Contains(key, <<":">>) }
    \cup Tools

\* Texts a tool may answer with.
Texts == SeqsUpTo({"\n", "-", " ", "A", ":", Scheme, "x"}, MaxText)

\* Message lists a session may hold.
StoredMessages ==
    SeqsUpTo([role : {"user", "assistant", "system"}, content : {<<"a">>, <<"b">>},
              context : {CtxEmpty, CtxRoot}, timestamp : {0}], MAX_HISTORY_LENGTH)

\* A tool is advertised (get_tools_for_claude) and the advertised name is
\* converted back (handle_tool_use).
ConvertToolName(t) ==
    /\ th[t].pc = "idle"
    /\ \E tool_key \in ToolKeys :
         Set(t, Done([Idle EXCEPT !.kind = "tool_name", !.arg = tool_key,
                                  !.result = McpName(ClaudeName(tool_key))]))
    /\ UNCHANGED <<config, sessions, lock, now, minted, budget, cleanup>>

\* format_markdown_response is called on a text.
FormatText(t) ==
    /\ th[t].pc = "idle"
    /\ \E content \in Texts :
         Set(t, Done([Idle EXCEPT !.kind = "format", !.arg = content,
                                  !.result = FormatMarkdownResponse(content)]))
    /\ UNCHANGED <<config, sessions, lock, now, minted, budget, cleanup>>

\* get_conversation_history, lines 79-87, on the list get_messages returned.
FormatHistory(t) ==
    /\ th[t].pc = "idle"
    /\ \E messages \in StoredMessages :
         Set(t, Done([Idle EXCEPT !.kind = "conversation", !.arg = messages,
                                  !.result = ConversationHistory(messages)]))
    /\ UNCHANGED <<config, sessions, lock, now, minted, budget, cleanup>>

\* FastMCPClient.initialize, lines 43-103: the registry keys, in the order
\* of registration.
QueryCredibleSets == <<"finngen", ":", "query", "_", "credible", "_", "sets">>
GetApiInfo == <<"finngen", ":", "get", "_", "api", "_", "info">>
HealthCheck == <<"finngen", ":", "health", "_", "check">>
IdentifyPhenotypeIds == <<"finngen", ":", "identify", "_", "phenotype", "_", "ids">>
SearchPhenotypesByDescription ==
    <<"finngen", ":", "search", "_", "phenotypes", "_", "by", "_", "description">>
FastRegistry ==
    <<QueryCredibleSets, GetApiInfo, HealthCheck, IdentifyPhenotypeIds,
      SearchPhenotypesByDescription>>
FastTools == { FastRegistry[i] : i \in 1..Len(FastRegistry) }

\* MCPClient.initialize, lines 37-56
McpRegistry == <<RegisteredKey>>

\* The two tool clients.
Clients == {"mcp_client", "fastmcp_client"}
Registry(client) == IF client = "mcp_client" THEN McpRegistry ELSE FastRegistry

\* arguments.get(key, default)
ArgGet(arguments, key, default) ==
    IF \E p \in arguments : p[1] = key
    THEN (CHOOSE p \in arguments : p[1] = key)[2]
    ELSE default

\* The placeholder queries of call_tool.
PerplexityPlaceholder == <<"Please provide a search query">>
CredibleSetsPlaceholder == <<"Please provide a gene name or search query">>
PhenotypeIdsPlaceholder == <<"Please provide a biological concept">>
DescriptionPlaceholder == <<"Please provide a phenotype description">>

\* `query` when it is truthy, the placeholder otherwise.
OrPlaceholder(query, placeholder) == IF query = <<>> THEN placeholder ELSE query

\* Words that match the gene pattern of call_finngen_search, line 180.
GeneWords == {"IL7"}

\* call_finngen_search, lines 179-187: the identifier sent for a query.
Identifier(query) ==
    IF \E i \in 1..Len(query) : query[i] \in GeneWords
    THEN <<query[CHOOSE i \in 1..Len(query) :
                   /\ query[i] \in GeneWords
                   /\ \A j \in 1..(i - 1) : query[j] \notin GeneWords]>>
    ELSE Strip(query)

\* The argument sets call_tool may be given.
ArgumentSets ==
    { NoArguments, QueryArguments(<<>>), QueryArguments(<<"q">>),
      QueryArguments(<<"IL7">>) }

\* call_tool raises before any provider function is called.
Refused(e) == [raised |-> TRUE, error |-> e, requests |-> <<>>, result |-> {}]

\* call_perplexity_search, call_finngen_search, call_finngen_tool: one
\* request to the provider; its answer is returned as {'content': ...}, its
\* failure is raised.
Provider(tool, arguments, outcome) ==
    [raised |-> ~outcome.ok,
     error |-> IF outcome.ok THEN <<>> ELSE outcome.value,
     requests |-> <<[tool |-> tool, arguments |-> arguments]>>,
     result |-> IF outcome.ok THEN { <<"content", outcome.value>> } ELSE {}]

\* MCPClient.call_tool, lines 65-86, and call_perplexity_search, lines
\* 106-120
McpCallTool(tool_name, arguments, outcome) ==
    IF tool_name \notin Tools
    THEN Refused(<<"Tool ">> \o tool_name \o <<" not found">>)
    ELSE Provider(<<"perplexity_ask">>,
                  { <<"messages",
                      OrPlaceholder(ArgGet(arguments, "query", <<>>),
                                    PerplexityPlaceholder)>> },
                  outcome)

\* (A dispatcher that sends a placeholder query to every tool.)
FastCallToolAlwaysPlaceholder(tool_name, arguments, outcome) ==
    IF tool_name \notin FastTools
    THEN Refused(<<"Tool ">> \o tool_name \o <<" not found">>)
    ELSE Provider(<<"query_credible_sets">>,
                  { <<"query",
                      OrPlaceholder(ArgGet(arguments, "query", <<>>),
                                    CredibleSetsPlaceholder)>> },
                  outcome)

\* FastMCPClient.call_tool, lines 130-168, with call_finngen_search, lines
\* 179-196, and call_finngen_tool
FastCallTool(tool_name, arguments, outcome) ==
    LET query == ArgGet(arguments, "query", <<>>) IN
    IF tool_name \notin FastTools
    THEN Refused(<<"Tool ">> \o tool_name \o <<" not found">>)
    ELSE IF tool_name = QueryCredibleSets
    THEN Provider(<<"query_credible_sets">>,
                  { <<"query_type", <<"gene">>>>,
                    <<"identifier",
                      Identifier(OrPlaceholder(query, CredibleSetsPlaceholder))>>,
                    <<"format_output", <<"summary">>>>,
                    <<"max_results", <<"50">>>> },
                  outcome)
    ELSE IF tool_name = GetApiInfo
    THEN Provider(<<"get_api_info">>, NoArguments, outcome)
    ELSE IF tool_name = HealthCheck
    THEN Provider(<<"health_check">>, NoArguments, outcome)
    ELSE IF tool_name = IdentifyPhenotypeIds
    THEN Provider(<<"identify_phenotype_ids">>,
                  { <<"biological_concept",
                      OrPlaceholder(query, PhenotypeIdsPlaceholder)>> },
                  outcome)
    ELSE Provider(<<"search_phenotypes_by_description">>,
                  { <<"description", OrPlaceholder(query, DescriptionPlaceholder)>> },
                  outcome)

\* call_tool of one of the two tool clients is called with a name and
\* arguments.
Dispatch(t) ==
    /\ th[t].pc = "idle"
    /\ \E client \in Clients, arguments \in ArgumentSets, outcome \in ProviderOutcomes :
       \E tool_name \in Tools \cup FastTools \cup {McpName(UnknownTool)} :
         Set(t, Done([Idle EXCEPT
                        !.kind = "call_tool",
                        !.arg = [client |-> client, tool_name |-> tool_name,
                                 arguments |-> arguments, outcome |-> outcome],
                        !.result = IF client = "mcp_client"
                                   THEN McpCallTool(tool_name, arguments, outcome)
                                   ELSE FastCallTool(tool_name, arguments, outcome)]))
    /\ UNCHANGED <<config, sessions, lock, now, minted, budget, cleanup>>

\* (A reverse conversion that restores the colon at the last underscore.)
McpNameAtLastUnderscore(tool_name) ==
    IF \E i \in 1..Len(tool_name) : tool_name[i] = "_"
    THEN LET k == CHOOSE i \in 1..Len(tool_name) :
                      /\ tool_name[i] = "_"
                      /\ \A j \in (i + 1)..Len(tool_name) : tool_name[j] # "_"
         IN [tool_name EXCEPT ![k] = ":"]
    ELSE tool_name

\* handle_tool_use, line 226, on a name the completion API was given.
ReverseConversion(tool_name) == McpName(tool_name)

\* get_tools_for_claude (mcp_client.py 196-206, fastmcp_client.py 273-283):
\* the names advertised for a registry, in its order.
GetToolsForClaude(registry) == [i \in 1..Len(registry) |-> ClaudeName(registry[i])]

\* A client advertises its tools, and each advertised name is converted back
\* as handle_tool_use does when the completion API asks for that tool.
AdvertiseTools(t) ==
    /\ th[t].pc = "idle"
    /\ \E client \in Clients :
         LET claude_tools == GetToolsForClaude(Registry(client)) IN
         Set(t, Done([Idle EXCEPT
                        !.kind = "advertise",
                        !.arg = [client |-> client, registry |-> Registry(client)],
                        !.result = [i \in 1..Len(claude_tools) |->
                                       [name |-> claude_tools[i],
                                        mcp_tool_name |->
                                            ReverseConversion(claude_tools[i])]]]))
    /\ UNCHANGED <<config, sessions, lock, now, minted, budget, cleanup>>

\* The functions of the chat layer, each applied to one argument at a time.
NextFunctions ==
    \E t \in Serial :
        \/ ConvertToolName(t)
        \/ FormatText(t)
        \/ FormatHistory(t)
        \/ Dispatch(t)
        \/ AdvertiseTools(t)
        \/ Finish(t)

SpecFunctions == InitPost /\ [][NextFunctions]_vars

(* ------------------------------ properties ----------------------------- *)
\* The positions of the events of the given types.
Indices(events, types) == { i \in 1..Len(events) : events[i].type \in types }

\* The contents of the chunk events, concatenated in emission order.
RECURSIVE ChunkText(_)
ChunkText(events) ==
    IF events = <<>> THEN <<>>
    ELSE (IF Head(events).type = "chunk" THEN Head(events).content ELSE <<>>)
         \o ChunkText(Tail(events))

\* The relay's response is complete.
Drained(t) == th[t].kind = "gen" /\ th[t].pc = "done"

\* C1 as claimed: every response of the relay, also the one produced when no
\* chat client is configured, holds exactly one `start` event, which is its
\* first event and carries the session id.
C1_StartFirstAlways ==
    \A t \in Threads :
        th[t].kind = "gen" =>
            LET ev == th[t].events IN
            /\ Len(ev) >= 1
            /\ ev[1].type = "start"
            /\ ev[1].session_id = th[t].session_id
            /\ Indices(ev, {"start"}) = {1}

\* C1 amended: with a chat client configured, every response of the relay,
\* whatever the adapter yields or raises, holds exactly one `start` event,
\* which is its first event and carries the session id; with no chat client
\* configured the response is a single `error` event and holds no `start`.
C1_StartFirstWhenConfigured ==
    \A t \in Threads :
        th[t].kind = "gen" =>
            LET ev == th[t].events IN
            IF client_ok
            THEN /\ Len(ev) >= 1
                 /\ ev[1].type = "start"
                 /\ ev[1].session_id = th[t].session_id
                 /\ Indices(ev, {"start"}) = {1}
            ELSE /\ Len(ev) = 1
                 /\ ev[1].type = "error"

\* A drained response whose adapter raised after a chunk had been emitted.
C1_Witness ==
    \E t \in Threads :
        /\ Drained(t)
        /\ th[t].adapter = "raised"
        /\ th[t].pulls >= 1
        /\ th[t].events[1].type = "start"

\* C2: a response of the relay never holds more than one terminal event
\* (`end` or `error`), nothing follows a terminal event, and a drained
\* response holds exactly one, on every exit path.
C2_OneTerminalLast ==
    \A t \in Threads :
        th[t].kind = "gen" =>
            LET ev == th[t].events
                terminal == Indices(ev, {"end", "error"})
            IN  /\ Cardinality(terminal) <= 1
                /\ \A i \in terminal : i = Len(ev)
                /\ th[t].pc = "done" => Cardinality(terminal) = 1

\* A drained response whose adapter was exhausted and whose append to the
\* session store raised.
C2_Witness ==
    \E t \in Threads :
        /\ Drained(t)
        /\ th[t].adapter = "exhausted"
        /\ th[t].err = "KeyError"
        /\ Last(th[t].events).type = "error"

\* C3 as claimed: when the adapter is exhausted without an exception, the
\* drained response is `start`, one `chunk` per fragment in order, then
\* `end`, and the assistant message handed to the session store is the
\* concatenation of the chunk contents.
C3_ExhaustedEndsAndAppends ==
    \A t \in Threads :
        Drained(t) /\ th[t].adapter = "exhausted" =>
            LET ev == th[t].events IN
            /\ Len(ev) = th[t].pulls + 2
            /\ Indices(ev, {"chunk"}) = 2..(Len(ev) - 1)
            /\ Last(ev).type = "end"
            /\ th[t].built.role = "assistant"
            /\ th[t].built.content = ChunkText(ev)

\* C4: when the adapter raises, after any number of chunks, the response
\* ends with `error`, holds no `end`, the relay has built no message for the
\* store, and the session's messages, if the session is still there, are
\* the ones it held when the stream took its history.
C4_ErrorPersistsNothing ==
    \A t \in Threads :
        th[t].kind = "gen" /\ th[t].adapter = "raised" =>
            /\ th[t].pc = "done"
            /\ Last(th[t].events).type = "error"
            /\ Indices(th[t].events, {"end"}) = {}
            /\ th[t].built = NoMessage
            /\ th[t].session_id \in DOMAIN sessions =>
                   sessions[th[t].session_id].messages = th[t].messages

\* The adapter raised after a chunk, and the session still holds its messages.
C4_Witness ==
    \E t \in Threads :
        /\ Drained(t)
        /\ th[t].adapter = "raised"
        /\ th[t].pulls >= 1
        /\ th[t].session_id \in DOMAIN sessions
        /\ sessions[th[t].session_id].messages # <<>>

\* The last n elements of a sequence.
Suffix(s, n) == SubSeq(s, Len(s) - n + 1, Len(s))

Min(a, b) == IF a <= b THEN a ELSE b

\* Thread t leaves the locked block of add_message without an exception.
Appends(t) == th[t].pc = "am_locked" /\ th'[t].pc # "am_locked" /\ th'[t].err = "none"

\* C5: no session ever holds more than MAX_HISTORY_LENGTH messages, and an
\* append to a session that holds MAX_HISTORY_LENGTH messages leaves the
\* previous messages without the oldest, in their order, followed by the new
\* message (below the cap the new message is just added at the end).
C5_HistoryCapped ==
    /\ [](\A id \in DOMAIN sessions : Len(sessions[id].messages) <= MAX_HISTORY_LENGTH)
    /\ [][\A t \in Threads :
            Appends(t) =>
                LET old == sessions[th[t].session_id].messages
                    new == sessions'[th[t].session_id].messages
                IN  new = (IF Len(old) >= MAX_HISTORY_LENGTH THEN Tail(old) ELSE old)
                          \o <<th[t].built>>
         ]_vars

\* An append has dropped the oldest message of a full session.
C5_Witness ==
    \E t \in Threads :
        /\ th[t].trimmed
        /\ th[t].session_id \in DOMAIN sessions
        /\ Len(sessions[th[t].session_id].messages) = MAX_HISTORY_LENGTH
        /\ Last(sessions[th[t].session_id].messages) = th[t].built

\* old followed by at most one new message, cut to the cap from the front.
Extends(old, new) ==
    \/ new = old
    \/ /\ Len(new) >= 1
       /\ Len(new) - 1 <= Len(old)
       /\ SubSeq(new, 1, Len(new) - 1) = Suffix(old, Len(new) - 1)
       /\ Len(new) = Len(old) + 1 \/ Len(new) = MAX_HISTORY_LENGTH

\* C6 as claimed: whatever the request threads do concurrently, a step
\* changes the messages of a session only by appending one message (dropping
\* the oldest at the cap), and a session disappears only in the sweep.
C6_AppendOnly ==
    [][\A id \in DOMAIN sessions :
          IF id \in DOMAIN sessions'
          THEN Extends(sessions[id].messages, sessions'[id].messages)
          ELSE spc = "locked"
      ]_vars

\* C7 as claimed: no operation of the session store raises, wherever the
\* sweep's deletion falls.
C7_NoStoreOperationRaises == \A t \in Threads : th[t].err # "KeyError"

\* Thread t leaves the locked block of create_session it is in.
Leaves(t) == th[t].pc \in {"cs_touch", "cs_new"} /\ th'[t].pc # th[t].pc

\* Thread t returns from create_session.
Creates(t) == Leaves(t) /\ th'[t].err = "none"

\* What a call of create_session by t has done when it returns: the id is in
\* the store, no other session has changed, a session that the call found is
\* touched and nothing more, a session that it did not find is empty.
CreateSessionEffect(t) ==
    LET id == th[t].session_id IN
    /\ th'[t].session_id = id
    /\ id \in DOMAIN sessions'
    /\ \A k \in (DOMAIN sessions \cup DOMAIN sessions') \ {id} :
           /\ k \in DOMAIN sessions /\ k \in DOMAIN sessions'
           /\ sessions'[k] = sessions[k]
    /\ IF th[t].pc = "cs_touch"
       THEN /\ id \in DOMAIN sessions
            /\ sessions'[id].messages = sessions[id].messages
            /\ sessions'[id].created_at = sessions[id].created_at
            /\ sessions'[id].last_activity = now
       ELSE /\ sessions'[id].messages = <<>>
            /\ sessions'[id].created_at = now
            /\ sessions'[id].last_activity = now

\* The branch create_session takes (line 26, lines 33-34): the id given is
\* kept, and touched if and only if it names a session; an omitted or empty
\* id is replaced by a non-empty id that names no session.
CreateSessionBranch(t) ==
    LET id == th[t].session_id IN
    IF id # <<>>
    THEN /\ th'[t].session_id = id
         /\ th'[t].pc = "cs_touch_acq" <=> id \in DOMAIN sessions
         /\ th'[t].pc = "cs_new_acq" <=> id \notin DOMAIN sessions
    ELSE /\ th'[t].session_id # <<>>
         /\ th'[t].session_id \notin DOMAIN sessions
         /\ th'[t].pc = "cs_new_acq"

\* C8 as claimed: create_session(id) returns, with an id that is in the
\* store; for an id that named a session it has changed nothing of that
\* session but its last-activity time; otherwise it has stored an empty
\* session, under the id given if one was given, under a non-empty id that
\* named no session if none was given.
C8_CreateSession ==
    /\ [][\A t \in Threads :
            th[t].pc = "cs_check" /\ th'[t].pc # "cs_check" => CreateSessionBranch(t)]_vars
    /\ [][\A t \in Threads :
            Leaves(t) => th'[t].err = "none" /\ CreateSessionEffect(t)]_vars

\* What holds of create_session: the same, for the calls that return.
CreateSessionWhenItReturns ==
    /\ [][\A t \in Threads :
            th[t].pc = "cs_check" /\ th'[t].pc # "cs_check" => CreateSessionBranch(t)]_vars
    /\ [][\A t \in Threads : Creates(t) => CreateSessionEffect(t)]_vars

\* C9: the sweep deletes every session whose last activity is older than
\* the cutoff and keeps, unchanged, every session whose last activity is
\* more recent; once it has run, no session of the store is older than the
\* cutoff.
C9_SweepRemovesExpired ==
    /\ [](spc = "report" =>
            \A id \in DOMAIN sessions : sessions[id].last_activity >= cutoff_time)
    /\ [][spc = "locked" /\ spc' = "report" =>
            \A id \in DOMAIN sessions :
                /\ sessions[id].last_activity < cutoff_time => id \notin DOMAIN sessions'
                /\ sessions[id].last_activity > cutoff_time =>
                       id \in DOMAIN sessions' /\ sessions'[id] = sessions[id]
         ]_vars

\* A sweep has deleted a session and kept a more recent one with its messages.
C9_Witness ==
    /\ spc = "report"
    /\ expired_sessions # {}
    /\ \A id \in expired_sessions : id \notin DOMAIN sessions
    /\ \E id \in DOMAIN sessions :
          /\ sessions[id].last_activity > cutoff_time
          /\ sessions[id].messages # <<>>

\* C10 as claimed: once POST /message has answered 200, the history that
\* GET /history answers for the returned session id shows the (trimmed)
\* message of the request as a user entry.
C10_PostedMessageShown ==
    \A t \in Threads :
        th[t].kind = "message" /\ th[t].pc = "done" /\ th[t].resp.status = 200 =>
            \E i \in DOMAIN HistoryView(sessions, th[t].resp.session_id) :
                /\ HistoryView(sessions, th[t].resp.session_id)[i].role = "user"
                /\ HistoryView(sessions, th[t].resp.session_id)[i].content = th[t].message

\* What holds of POST /message: the append of send_message leaves the
\* history that GET /history answers as the history before it, cut to the
\* messages that survive the cap, followed by the (trimmed) user message.
PostAppendsLast ==
    [][\A t \in Threads :
          th[t].kind = "message" /\ Appends(t) =>
              LET before == HistoryView(sessions, th[t].session_id)
                  after == HistoryView(sessions', th[t].session_id)
              IN  /\ th'[t].pc = "sm_ok"
                  /\ after = Suffix(before, Min(Len(before), MAX_HISTORY_LENGTH - 1))
                             \o << [role |-> "user", content |-> th[t].message,
                                    timestamp |-> th[t].built.timestamp] >>
      ]_vars

\* The positions at which a request thread waits for the completion API or a
\* tool provider: the relay pulling the adapter's next fragment.
Suspended == {"gen_pull"}

\* The positions inside a `with self._lock:` block.
InLock == {"cs_touch", "cs_new", "am_locked", "gm_locked", "ua_locked"}

\* C11: a step changes the session map, a last-activity time or a message
\* list only if its thread holds the store lock before the step; a thread
\* holds the lock only inside a `with self._lock:` block, never while it
\* waits for the completion API or a tool provider, so that a suspended
\* stream leaves the lock to the store operations of the other threads.
C11_LockDiscipline ==
    /\ [](\A t \in Threads :
            /\ lock = t => th[t].pc \in InLock
            /\ th[t].pc \in Suspended => lock # t)
    /\ [](lock = Sweeper <=> spc = "locked")
    /\ [][sessions' # sessions =>
            \/ lock \in Threads /\ th'[lock] # th[lock] /\ th[lock].pc \in InLock
            \/ lock = Sweeper /\ spc' # spc
         ]_vars

\* A stream waits for its next fragment while another thread, inside the
\* lock, is about to append to another session.
C11_Witness ==
    \E t \in Threads : \E u \in Threads \ {t} :
        /\ th[t].pc \in Suspended
        /\ th[t].pulls >= 1
        /\ lock = u
        /\ th[u].pc = "am_locked"
        /\ th[u].session_id # th[t].session_id

\* The fragments the relay has re-emitted: the contents of its chunk
\* events, in emission order.
RECURSIVE Emitted(_)
Emitted(events) ==
    IF events = <<>> THEN <<>>
    ELSE (IF Head(events).type = "chunk" THEN <<Head(events).content>> ELSE <<>>)
         \o Emitted(Tail(events))

\* The events at which the adapter has dispatched a call of the tool `name`:
\* a block stop that follows the start of a tool block of that name, with no
\* other block start or stop in between.
Dispatches(received, name) ==
    { j \in 1..Len(received) :
        /\ received[j] = BlockStop
        /\ \E i \in 1..(j - 1) :
             /\ received[i] = ToolUseStart(name)
             /\ \A k \in (i + 1)..(j - 1) :
                  received[k].type \notin {"content_block_start", "content_block_stop"} }

\* The tool names that stand for no registered tool.
Unregistered == { name \in ToolNames : McpName(name) \notin Tools }

\* C12 as claimed: once the adapter has dispatched a call of an unregistered
\* tool, the relay has emitted no notice for that tool, and the event that
\* ends the stream is an `error` event.
C12_UnknownToolEndsInError ==
    \A t \in Threads : \A name \in Unregistered :
        Dispatches(th[t].received, name) # {} =>
            /\ \A i \in 1..Len(th[t].events) :
                   th[t].events[i].content # ToolNotice(name)
            /\ Drained(t) => Last(th[t].events).type = "error"

\* C12, amended: once the adapter has dispatched a call of an unregistered
\* tool, the relay has emitted the notice for that tool as a chunk; the chunk
\* after it, once emitted, is a tool-error text that holds the tool's name
\* and the key that was not found; the stream goes on, and when no store
\* operation fails it ends with an `end` event.
C12_UnknownToolReportedInStream ==
    \A t \in Threads : \A name \in Unregistered :
        Dispatches(th[t].received, name) # {} =>
            LET ev == th[t].events IN
            /\ \E i \in 1..Len(ev) :
                  /\ ev[i] = ChunkEvent(ToolNotice(name))
                  /\ IF i = Len(ev)
                     THEN th[t].pc = "gen_pull" /\ th[t].tool_result # <<>>
                     ELSE /\ ev[i + 1].type = "chunk"
                          /\ Head(ev[i + 1].content) = "Tool error: "
                          /\ Contains(ev[i + 1].content, name)
                          /\ Contains(ev[i + 1].content, McpName(name) \o <<" not found">>)
            /\ Indices(ev, {"error"}) = {}
            /\ Drained(t) => Last(ev).type = "end"

\* A stream in which a call of an unregistered tool was dispatched has ended.
C12_Witness ==
    \E t \in Threads : \E name \in Unregistered :
        /\ Dispatches(th[t].received, name) # {}
        /\ Drained(t)
        /\ th[t].adapter = "exhausted"

\* A text delta of the completion stream.
IsTextDelta(event) == event.type = "content_block_delta" /\ event.delta = "text"

\* The adapter reads a block stop that completes a tool call.
DispatchStep(t) ==
    /\ th[t].current_tool_block # <<>>
    /\ th'[t].received = Append(th[t].received, BlockStop)

\* The text handle_tool_use returns for a dispatch that failed.
IsToolError(text, name) ==
    /\ text # <<>>
    /\ Head(text) = "Tool error: "
    /\ Contains(text, name)

\* C13: a tool dispatch that fails (unknown tool, provider error) raises
\* nothing into the adapter: the step that dispatches it leaves the adapter
\* reading its stream, with the notice emitted and a tool-error text as the
\* result to yield; the result is then emitted as the next chunk, and the
\* adapter goes on with the remaining events.  The only apology the stream
\* carries is one for an error of the completion API.
C13_ToolFailureStaysInStream ==
    /\ [][\A t \in Threads :
            LET r == th[t]
                q == th'[t]
            IN
            /\ DispatchStep(t) =>
                  /\ q.adapter = "open" /\ q.pc = "gen_pull" /\ q.err = "none"
                  /\ q.tool_result # <<>> =>
                        q.events = Append(r.events, ChunkEvent(ToolNotice(r.current_tool_block)))
                  /\ q.tool_result = <<>> => q.events = r.events
                  /\ r.current_tool_block \in Unregistered =>
                        IsToolError(q.tool_result, r.current_tool_block)
            /\ (r.tool_result # <<>> /\ q # r) =>
                  /\ q.events = Append(r.events, ChunkEvent(r.tool_result))
                  /\ q.adapter = "open" /\ q.pc = "gen_pull" /\ q.err = "none"
                  /\ q.current_tool_block = <<>> /\ q.tool_result = <<>>
         ]_vars
    /\ [](\A t \in Threads : \A i \in 1..Len(th[t].events) :
            LET content == th[t].events[i].content IN
            (content # <<>> /\ Head(content) = Head(Apology(<<>>)))
                => \E e \in ApiErrors : content = Apology(e))

\* A registered tool's provider failed, the tool-error text was emitted, and
\* the adapter went on to emit a text delta after it.
C13_Witness ==
    \E t \in Threads : \E name \in ToolNames \ Unregistered :
        LET ev == th[t].events IN
        \E i \in 1..(Len(ev) - 1) :
            /\ IsToolError(ev[i].content, name)
            /\ ev[i + 1].content \in Fragments
            /\ IsTextDelta(Last(th[t].received))

\* C14 as claimed: a stream in which a tool call was resolved with a result
\* to show holds a `tool_notice` event followed by a `tool_result` event.
C14_ToolEventVariants ==
    \A t \in Threads :
        (Drained(t) /\ \E name \in ToolNames :
                          \E i \in 1..Len(th[t].events) :
                              th[t].events[i].content = ToolNotice(name))
        => \E i \in 1..(Len(th[t].events) - 1) :
              /\ th[t].events[i].type = "tool_notice"
              /\ th[t].events[i + 1].type = "tool_result"

\* C14, amended: the relay emits `start`, `chunk`, `end` and `error` events
\* only.  For a tool call resolved with a non-empty result it emits a chunk
\* holding the notice that names the tool and, as the very next event, a
\* chunk holding the result; for an empty result it emits nothing.  Every
\* text delta read afterwards is emitted as a chunk again.
C14_ToolPairAsChunks ==
    /\ [](\A t \in Threads : \A i \in 1..Len(th[t].events) :
              th[t].events[i].type \in {"start", "chunk", "end", "error"})
    /\ [][\A t \in Threads :
            LET r == th[t]
                q == th'[t]
            IN
            /\ DispatchStep(t) =>
                  \/ q.tool_result = <<>> /\ q.events = r.events
                  \/ /\ q.tool_result # <<>>
                     /\ Len(q.events) = Len(r.events) + 1
                     /\ Last(q.events).type = "chunk"
                     /\ Last(q.events).content = ToolNotice(r.current_tool_block)
            /\ (r.tool_result # <<>> /\ q # r) =>
                  /\ Len(q.events) = Len(r.events) + 1
                  /\ SubSeq(q.events, 1, Len(r.events)) = r.events
                  /\ Last(q.events).type = "chunk"
                  /\ Last(q.events).content = r.tool_result
            /\ (Len(q.received) = Len(r.received) + 1 /\ IsTextDelta(Last(q.received))) =>
                  /\ Len(q.events) = Len(r.events) + 1
                  /\ Last(q.events).type = "chunk"
                  /\ Last(q.events).content = Last(q.received).text
         ]_vars

\* The notice, the provider's answer and a later text delta were emitted as
\* three successive chunks.
C14_Witness ==
    \E t \in Threads : \E name \in ToolNames \ Unregistered :
        LET ev == th[t].events IN
        \E i \in 1..(Len(ev) - 2) :
            /\ ev[i].type = "chunk" /\ ev[i].content = ToolNotice(name)
            /\ ev[i + 1].type = "chunk" /\ ev[i + 1].content = <<"r">>
            /\ ev[i + 2].type = "chunk" /\ ev[i + 2].content \in Fragments

\* The fragment is an apology that embeds an error of the completion API.
IsApology(content) ==
    /\ content # <<>>
    /\ Head(content) = "I apologize, but I encountered an error: "
    /\ \E e \in ApiErrors : Contains(content, e)

\* C15: when the completion API fails, before the first event or after any
\* number of them, the adapter yields one more fragment, the apology that
\* embeds the error; it yields nothing after it and returns, and the relay
\* sees no exception: the stream ends with `end`.
C15_ApiFailureApologizes ==
    /\ [][\A t \in Threads :
            LET r == th[t]
                q == th'[t]
            IN
            /\ (r.adapter = "open" /\ q.adapter = "failed") =>
                  /\ Len(q.events) = Len(r.events) + 1
                  /\ SubSeq(q.events, 1, Len(r.events)) = r.events
                  /\ Last(q.events).type = "chunk"
                  /\ IsApology(Last(q.events).content)
                  /\ q.err = "none" /\ q.pc = "gen_pull"
            /\ (r.adapter = "failed" /\ q # r) =>
                  /\ q.adapter = "apologized"
                  /\ q.events = r.events
                  /\ q.err = "none"
         ]_vars
    /\ [](\A t \in Threads :
            th[t].adapter = "apologized" =>
                LET fragments == Emitted(th[t].events) IN
                /\ IsApology(Last(fragments))
                /\ \A i \in 1..(Len(fragments) - 1) : ~IsApology(fragments[i])
                /\ Indices(th[t].events, {"error"}) = {}
                /\ Drained(t) => Last(th[t].events).type = "end")

\* The completion API failed after two text deltas; the stream has ended.
C15_Witness ==
    \E t \in Threads :
        /\ Drained(t)
        /\ th[t].adapter = "apologized"
        /\ Len(th[t].received) = 2
        /\ \A i \in 1..2 : IsTextDelta(th[t].received[i])
        /\ Len(th[t].events) = 5

\* The texts of the text deltas among the events read, in arrival order.
RECURSIVE Deltas(_)
Deltas(received) ==
    IF received = <<>> THEN <<>>
    ELSE (IF IsTextDelta(Head(received)) THEN <<Head(received).text>> ELSE <<>>)
         \o Deltas(Tail(received))

IsToolNotice(fragment) == \E name \in ToolNames : fragment = ToolNotice(name)

\* The positions of the fragments that belong to a tool pair: a notice, or
\* the fragment right after a notice.
ToolPair(fragments) ==
    { i \in 1..Len(fragments) :
        \/ IsToolNotice(fragments[i])
        \/ i > 1 /\ IsToolNotice(fragments[i - 1]) }

\* The fragments at the positions outside `skip`, in order.
RECURSIVE Without(_, _, _)
Without(fragments, skip, i) ==
    IF i > Len(fragments) THEN <<>>
    ELSE (IF i \in skip THEN <<>> ELSE <<fragments[i]>>) \o Without(fragments, skip, i + 1)

\* A notice is emitted by the step that reads the stop event of its tool
\* block, and by no other step.
NoticeAtStop ==
    [][\A t \in Threads :
          (/\ Len(th'[t].events) = Len(th[t].events) + 1
           /\ IsToolNotice(Last(th'[t].events).content))
          => DispatchStep(t) /\ Last(th'[t].events).content = ToolNotice(th[t].current_tool_block)
      ]_vars

\* C16 as claimed: the fragments emitted, the tool pairs left out, are the
\* texts of the text deltas read, in arrival order.
C16_OnlyDeltasAndToolPairs ==
    \A t \in Threads :
        th[t].kind = "gen" =>
            LET fragments == Emitted(th[t].events) IN
            Without(fragments, ToolPair(fragments), 1) = Deltas(th[t].received)

\* C16, amended: the fragments emitted, with the tool pairs and a final
\* apology for a failure of the completion API left out, are the texts of
\* the text deltas read, in arrival order; a tool pair stands where the stop
\* event of its tool block was read.
C16_DeltasToolPairsAndApology ==
    /\ [](\A t \in Threads :
            th[t].kind = "gen" =>
                LET fragments == Emitted(th[t].events)
                    apology == IF th[t].adapter \in {"failed", "apologized"}
                               THEN {Len(fragments)} ELSE {}
                IN
                /\ Without(fragments, ToolPair(fragments) \cup apology, 1)
                       = Deltas(th[t].received)
                /\ \A i \in apology : IsApology(fragments[i]))
    /\ NoticeAtStop

\* Text deltas before and after a tool pair were emitted around it.
C16_Witness ==
    \E t \in Threads :
        LET fragments == Emitted(th[t].events) IN
        /\ Len(fragments) = 4
        /\ ToolPair(fragments) = {2, 3}
        /\ fragments[1] \in Fragments /\ fragments[4] \in Fragments
        /\ fragments[1] # fragments[4]
        /\ Deltas(th[t].received) = <<fragments[1], fragments[4]>>

\* C17 as claimed: the registry key of every tool comes back from the
\* conversion of its advertised name.
C17_ToolNameRoundTrip ==
    \A t \in Threads :
        (th[t].kind = "tool_name" /\ th[t].pc = "done") => th[t].result = th[t].arg

\* The round trip of the registered key, which holds one colon and no
\* underscore before it.
ToolNameRoundTripOfRegistered ==
    \A t \in Threads :
        (th[t].kind = "tool_name" /\ th[t].pc = "done" /\ th[t].arg \in Tools)
            => th[t].result = th[t].arg

\* C18 as claimed: formatting a formatted text changes nothing.
C18_FormatIdempotent ==
    \A t \in Threads :
        (th[t].kind = "format" /\ th[t].pc = "done")
            => FormatMarkdownResponse(th[t].result) = th[t].result

\* The positions of the messages of a conversation's two parties.
Spoken(messages) ==
    { i \in 1..Len(messages) : messages[i].role \in {"user", "assistant"} }

\* C20: the history get_conversation_history returns holds one entry per
\* stored message of role user or assistant and none for another message;
\* the entries stand in the order of their messages, and each is the
\* message's role and content and nothing else.
C20_ConversationHistory ==
    \A t \in Threads :
        (th[t].kind = "conversation" /\ th[t].pc = "done") =>
            LET messages == th[t].arg
                history == th[t].result
            IN
            /\ Len(history) = Cardinality(Spoken(messages))
            /\ \A i \in Spoken(messages) :
                  LET k == Cardinality({ j \in Spoken(messages) : j <= i }) IN
                  /\ DOMAIN history[k] = {"role", "content"}
                  /\ history[k].role = messages[i].role
                  /\ history[k].content = messages[i].content

\* A stored list with a message of another role between two spoken ones.
C20_Witness ==
    \E t \in Threads :
        /\ th[t].kind = "conversation" /\ th[t].pc = "done"
        /\ Len(th[t].arg) >= 2
        /\ \E i \in 1..Len(th[t].arg) : th[t].arg[i].role = "system"
        /\ \E i \in 1..Len(th[t].arg) : th[t].arg[i].role = "assistant"
        /\ Len(th[t].result) = Len(th[t].arg) - 1

\* The requests that read the history.
Reads == {"history", "get_messages"}

\* C19: a step of a request that reads the history leaves the store as it
\* is.  For an id the store does not hold, GET /history answers 200 with an
\* empty list and get_messages returns an empty list, without raising and
\* without creating the session.  For an id the store holds, get_messages
\* returns the stored list as it is at that moment, and the list the caller
\* holds does not change when other threads append afterwards.
C19_ReadsLeaveStore ==
    [][\A t \in Threads :
          LET r == th[t]
              q == th'[t]
          IN
          /\ (q # r /\ (r.kind \in Reads \/ q.kind \in Reads)) => sessions' = sessions
          /\ (r.pc = "idle" /\ q.kind = "history" /\ q.session_id \notin DOMAIN sessions) =>
                /\ q.pc = "done" /\ q.err = "none"
                /\ q.resp.status = 200 /\ q.resp.messages = <<>>
                /\ q.session_id \notin DOMAIN sessions'
          /\ (r.kind = "get_messages" /\ r.pc = "gm_check" /\ q # r
              /\ r.session_id \notin DOMAIN sessions) =>
                /\ q.pc = "done" /\ q.err = "none" /\ q.messages = <<>>
                /\ q.session_id \notin DOMAIN sessions'
          /\ (r.kind \in Reads /\ r.pc = "gm_locked" /\ q # r
              /\ r.session_id \in DOMAIN sessions) =>
                /\ q.err = "none"
                /\ HeldMessages(sessions', q) = sessions[r.session_id].messages
          /\ (r.kind \in Reads /\ r.pc \in {"gh_format", "done"} /\ q = r) =>
                HeldMessages(sessions', q) = HeldMessages(sessions, r)
    ]_vars

\* A reader holds the list it was given for a session to which a message
\* has been appended since.
C19_Witness ==
    \E t \in Threads :
        /\ th[t].kind \in Reads
        /\ th[t].pc \in {"gh_format", "done"}
        /\ th[t].messages # <<>>
        /\ th[t].session_id \in DOMAIN sessions
        /\ Len(sessions[th[t].session_id].messages) > Len(th[t].messages)

\* C21: POST /message either answers at once, with 503 when chat is disabled
\* and with 400 otherwise, and that step leaves the store as it is and calls
\* no store operation; or it goes on to the session work, and then chat is
\* enabled and the message, trimmed, is neither empty nor longer than the
\* limit.  A rejected request takes no later step on the store.
C21_RejectedBeforeSessionWork ==
    /\ [][\A t \in Threads :
            LET r == th[t]
                q == th'[t]
            IN
            (r.pc = "idle" /\ q.kind = "message") =>
                /\ q.pc = "done" =>
                      /\ q.resp.status = (IF chat_enabled THEN 400 ELSE 503)
                      /\ sessions' = sessions /\ lock' = lock /\ minted' = minted
                      /\ q.stack = <<>>
                /\ q.pc # "done" =>
                      /\ chat_enabled
                      /\ q.message # <<>>
                      /\ Head(q.message) \notin Whitespace
                      /\ Last(q.message) \notin Whitespace
                      /\ Len(q.message) <= MESSAGE_LIMIT
         ]_vars
    /\ [][\A t \in Threads :
            (th[t].kind = "message" /\ th[t].resp.status \in {400, 503}
             /\ th'[t] # th[t])
                => th'[t] = Idle /\ sessions' = sessions
         ]_vars

\* A request was answered 400 although chat is enabled, after an earlier
\* request had created a session; and the store holds what it held.
C21_Witness ==
    \E t \in Threads :
        /\ chat_enabled
        /\ th[t].kind = "message" /\ th[t].pc = "done"
        /\ th[t].resp.status = 400
        /\ DOMAIN sessions # {}

\* The types of the events of a response, in order.
EventTypes(events) == [i \in 1..Len(events) |-> events[i].type]

\* The client has issued exactly one POST and then one GET of the stream,
\* and the adapter has been drained after at least one fragment.
FirstExchange(t) ==
    /\ Drained(t)
    /\ budget = MaxChat - 2
    /\ th[t].adapter = "exhausted"
    /\ th[t].pulls >= 1

\* C22: after one POST of a user message to a new session and the draining
\* of its stream, where the adapter yields one or more non-empty fragments,
\* the events are `start`, one `chunk` per fragment, then `end`, and the
\* session holds exactly two messages: the user message that was posted and
\* the assistant message whose content is the concatenation of the chunks.
C22_EndToEndWithoutTools ==
    \A t \in Serial :
        FirstExchange(t) =>
            LET ev == th[t].events
                sid == th[t].session_id
            IN
            /\ Len(ev) = th[t].pulls + 2
            /\ ev[1].type = "start"
            /\ \A i \in 2..(Len(ev) - 1) : ev[i].type = "chunk" /\ ev[i].content # <<>>
            /\ ev[Len(ev)].type = "end"
            /\ sid \in DOMAIN sessions
            /\ Len(sessions[sid].messages) = 2
            /\ sessions[sid].messages[1].role = "user"
            /\ sessions[sid].messages[1].content = th[t].message
            /\ sessions[sid].messages[2].role = "assistant"
            /\ sessions[sid].messages[2].content = ChunkText(ev)
            /\ ChunkText(ev) # <<>>

\* The exchange of C22 for a message posted with the context of the root
\* node, answered in two fragments.
C22_Witness ==
    \E t \in Serial :
        /\ FirstExchange(t)
        /\ th[t].context = CtxRoot
        /\ th[t].pulls = 2
        /\ EventTypes(th[t].events) = <<"start", "chunk", "chunk", "end">>
        /\ Len(sessions[th[t].session_id].messages) = 2

\* The adapter of thread t reads an event of the completion stream in this
\* step.
ReadsEvent(t) == Len(th'[t].received) = Len(th[t].received) + 1

\* C23: a piece of a tool's input is added to the accumulator only while a
\* tool block is open (outside one the accumulator stays empty); the start
\* of a tool block makes it the current one with an empty accumulator; the
\* stop event of an open tool block invokes that tool exactly once, with
\* the arguments the accumulated text parses to, and with no arguments when
\* the text is empty or does not parse; no other step invokes a tool; and
\* once the block's fragments are yielded, no tool is current and the
\* accumulator is empty.
C23_ToolInputAssembly ==
    /\ [](\A t \in Serial :
            th[t].current_tool_block = <<>> => th[t].tool_input_json = <<>>)
    /\ [][\A t \in Serial :
            LET r == th[t]
                q == th'[t]
                event == Last(q.received)
            IN
            IF ~ReadsEvent(t) \/ r.kind # "gen"
            THEN \/ q.calls = r.calls
                 \/ q = Idle
            ELSE /\ (event.type = "content_block_delta" /\ event.delta = "partial_json") =>
                        /\ q.calls = r.calls
                        /\ q.current_tool_block = r.current_tool_block
                        /\ q.tool_input_json =
                               IF r.current_tool_block # <<>>
                               THEN r.tool_input_json \o event.text ELSE <<>>
                 /\ (event.type = "content_block_start" /\ event.delta = "tool_use") =>
                        /\ q.calls = r.calls
                        /\ q.current_tool_block = event.name
                        /\ q.tool_input_json = <<>>
                 /\ (event.type = "content_block_stop" /\ r.current_tool_block # <<>>) =>
                        /\ Len(q.calls) = Len(r.calls) + 1
                        /\ SubSeq(q.calls, 1, Len(r.calls)) = r.calls
                        /\ Last(q.calls).name = r.current_tool_block
                        /\ Last(q.calls).input =
                               IF r.tool_input_json = <<JsonOpen, JsonClose>>
                               THEN { <<"query", <<"q">>>> } ELSE {}
                        /\ q.tool_result = <<>> =>
                               q.current_tool_block = <<>> /\ q.tool_input_json = <<>>
                 /\ (event.type = "content_block_stop" /\ r.current_tool_block = <<>>) =>
                        q.calls = r.calls
                 /\ event.type \notin {"content_block_delta", "content_block_start",
                                        "content_block_stop"} =>
                        /\ q.calls = r.calls
                        /\ q.current_tool_block = r.current_tool_block
                        /\ q.tool_input_json = r.tool_input_json
                 /\ IsTextDelta(event) =>
                        /\ q.calls = r.calls
                        /\ q.current_tool_block = r.current_tool_block
                        /\ q.tool_input_json = r.tool_input_json]_vars
    /\ [][\A t \in Serial :
            (th[t].tool_result # <<>> /\ th'[t].tool_result = <<>> /\ th'[t].kind = "gen") =>
                th'[t].current_tool_block = <<>> /\ th'[t].tool_input_json = <<>>]_vars

\* A tool block that received a piece of input which does not parse on its
\* own has stopped: one invocation, with no arguments, and the current tool
\* and the accumulator are reset.
C23_Witness ==
    \E t \in Serial :
        /\ Len(th[t].calls) = 1
        /\ th[t].calls[1].input = {}
        /\ \E i \in 1..Len(th[t].received) :
               th[t].received[i].delta = "partial_json"
        /\ th[t].current_tool_block = <<>>
        /\ th[t].tool_result = <<>>
        /\ Last(th[t].received).type = "content_block_stop"

\* A call of call_tool has returned or raised.
Dispatched(t) == th[t].kind = "call_tool" /\ th[t].pc = "done"

\* The tool name is a key of the registry of the client that was called.
Registered(arg) ==
    \E i \in 1..Len(Registry(arg.client)) : Registry(arg.client)[i] = arg.tool_name

\* The call was given no `query`, or an empty one.
WithoutQuery(arg) == \A p \in arg.arguments : p[1] = "query" => p[2] = <<>>

\* The one request sent to the provider carries a placeholder query.
PlaceholderSent(result) ==
    /\ Len(result.requests) = 1
    /\ \E p \in result.requests[1].arguments :
           p[2] \in { PerplexityPlaceholder, CredibleSetsPlaceholder,
                      PhenotypeIdsPlaceholder, DescriptionPlaceholder }

\* An unknown name raises without a request, and a successful call returns
\* a mapping with a `content` field.
DispatchFrame(t) ==
    /\ ~Registered(th[t].arg) =>
           th[t].result.raised /\ th[t].result.requests = <<>>
    /\ (Registered(th[t].arg) /\ th[t].arg.outcome.ok) =>
           /\ ~th[t].result.raised
           /\ \E p \in th[t].result.result :
                  p[1] = "content" /\ p[2] = th[t].arg.outcome.value

\* C24 as claimed: for every registered tool a missing or empty `query` is
\* replaced by a placeholder query and the provider is called with it.
C24_PlaceholderForEveryTool ==
    \A t \in Serial :
        Dispatched(t) =>
            /\ DispatchFrame(t)
            /\ (Registered(th[t].arg) /\ WithoutQuery(th[t].arg)) =>
                   PlaceholderSent(th[t].result)

\* C24, amended: a name that is not in the registry raises without a
\* request to a provider; for a registered tool that passes a query on, a
\* missing or empty `query` is replaced by the tool's placeholder and the
\* provider is called with it; get_api_info and health_check are called
\* with no arguments whatever the query is; a successful call returns a
\* mapping with a `content` field.
C24_PlaceholderForQueryTools ==
    \A t \in Serial :
        Dispatched(t) =>
            /\ DispatchFrame(t)
            /\ Registered(th[t].arg) =>
                   /\ Len(th[t].result.requests) = 1
                   /\ IF th[t].arg.tool_name \in {GetApiInfo, HealthCheck}
                      THEN th[t].result.requests[1].arguments = {}
                      ELSE WithoutQuery(th[t].arg) => PlaceholderSent(th[t].result)

\* query_credible_sets has been called with no arguments and the provider
\* has answered: the request carries the placeholder as its identifier.
C24_Witness ==
    \E t \in Serial :
        /\ Dispatched(t)
        /\ th[t].arg.client = "fastmcp_client"
        /\ th[t].arg.tool_name = QueryCredibleSets
        /\ th[t].arg.arguments = {}
        /\ th[t].arg.outcome.ok
        /\ <<"identifier", CredibleSetsPlaceholder>> \in th[t].result.requests[1].arguments
        /\ \E p \in th[t].result.result : p[1] = "content"

\* The response generator of thread t has been closed by the client's
\* disconnect.
Disconnected(r) == r.kind = "gen" /\ r.err = "GeneratorExit"

\* C25: the step in which the response generator is closed before the
\* adapter is exhausted pulls nothing from the adapter, emits no event,
\* leaves the store as it is and closes the event loop when one was
\* created; nothing of this changes afterwards: the request is over.
C25_DisconnectStopsRelay ==
    /\ [][\A t \in Serial :
            (Disconnected(th'[t]) /\ ~Disconnected(th[t])) =>
                /\ th[t].kind = "gen"
                /\ th[t].adapter # "exhausted"
                /\ th'[t].pc = "done"
                /\ th'[t].pulls = th[t].pulls
                /\ th'[t].adapter = th[t].adapter
                /\ th'[t].events = th[t].events
                /\ th'[t].loop = (IF th[t].loop = "none" THEN "none" ELSE "closed")
                /\ sessions' = sessions]_vars
    /\ [][\A t \in Serial :
            Disconnected(th[t]) => th'[t] = Idle /\ sessions' = sessions]_vars
    /\ [](\A t \in Serial :
            Disconnected(th[t]) =>
                /\ th[t].loop # "open"
                /\ \A i \in 1..Len(th[t].events) :
                       th[t].events[i].type \in {"start", "chunk"})

\* The client went away after the first chunk of the first answer: the
\* loop is closed and the session holds the user message only.
C25_Witness ==
    \E t \in Serial :
        /\ Disconnected(th[t])
        /\ th[t].pulls = 1
        /\ th[t].loop = "closed"
        /\ EventTypes(th[t].events) = <<"start", "chunk">>
        /\ Len(sessions[th[t].session_id].messages) = 1
        /\ sessions[th[t].session_id].messages[1].role = "user"

\* C26 as claimed: when a stream is opened after a POST (the last message
\* of the session is the posted user message), the list submitted to the
\* completion API ends with that user message and holds before it only the
\* messages the session held before the POST, so the message appears once.
C26_UserMessageSubmittedOnce ==
    \A t \in Serial :
        (/\ th[t].kind = "gen"
         /\ th[t].api_messages # <<>>
         /\ th[t].messages # <<>>
         /\ Last(th[t].messages).role = "user") =>
            LET submitted == th[t].api_messages
                posted == Last(th[t].messages)
            IN
            /\ Last(submitted).role = "user"
            /\ SubSeq(Last(submitted).content, 1, Len(posted.content)) = posted.content
            /\ \A i \in 1..(Len(submitted) - 1) :
                   /\ i <= Len(th[t].messages) - 1
                   /\ submitted[i].role = th[t].messages[i].role
                   /\ submitted[i].content = th[t].messages[i].content

\* C27 as claimed: in no session's history are two `assistant` messages
\* adjacent, whatever POST and stream requests the client has issued.
C27_OneReplyPerUserMessage ==
    \A id \in DOMAIN sessions :
        \A i \in 1..(Len(sessions[id].messages) - 1) :
            ~(/\ sessions[id].messages[i].role = "assistant"
              /\ sessions[id].messages[i + 1].role = "assistant")

\* C28: for the registry of either tool client, every advertised name is
\* converted back to the registry key it was made from, and no two keys of
\* the registry are advertised under the same name.
C28_RegisteredNamesRoundTrip ==
    \A t \in Serial :
        (th[t].kind = "advertise" /\ th[t].pc = "done") =>
            LET registry == th[t].arg.registry
                advertised == th[t].result
            IN
            /\ Len(advertised) = Len(registry)
            /\ \A i \in 1..Len(registry) : advertised[i].mcp_tool_name = registry[i]
            /\ \A i, j \in 1..Len(registry) :
                   advertised[i].name = advertised[j].name => i = j

\* The FinnGen client has advertised its five tools; the first is offered
\* as finngen_query_credible_sets.
C28_Witness ==
    \E t \in Serial :
        /\ th[t].kind = "advertise" /\ th[t].pc = "done"
        /\ th[t].arg.client = "fastmcp_client"
        /\ Len(th[t].result) = 5
        /\ th[t].result[1].name =
               <<"finngen", "_", "query", "_", "credible", "_", "sets">>
        /\ th[t].result[1].mcp_tool_name = QueryCredibleSets

\* The stream endpoint has answered with the response of
\* create_error_sse_response.
StreamRefused(r) == r.kind = "stream" /\ r.pc = "done"

\* Some message of the list has role user.
HasUserMessage(messages) == \E i \in 1..Len(messages) : messages[i].role = "user"

\* C29: a stream request for a session that does not exist, holds no
\* messages or holds no user message is answered with a single `error`
\* event; no step of the request up to that answer changes the store, and
\* the adapter is never opened for it.
C29_RefusedStreamLeavesStore ==
    /\ [][\A t \in Serial :
            LET r == th[t]
                q == th'[t]
            IN
            /\ (r.pc = "idle" /\ q.kind = "stream") =>
                   /\ sessions' = sessions
                   /\ StreamRefused(q) <=> q.session_id \notin DOMAIN sessions
            /\ (r.kind = "stream" /\ r.pc \in {"gm_check", "gm_acq", "gm_locked"}) =>
                   /\ sessions' = sessions
                   /\ q.kind = "stream"
                   /\ q.pc \in {"gm_acq", "gm_locked", "sr_scan"}
            /\ (r.kind = "stream" /\ r.pc = "sr_scan") =>
                   /\ sessions' = sessions
                   /\ r.messages = sessions[r.session_id].messages
                   /\ StreamRefused(q) <=> ~HasUserMessage(r.messages)
            /\ (StreamRefused(q) /\ ~StreamRefused(r)) => r.pc \in {"idle", "sr_scan"}
            /\ StreamRefused(r) => q = Idle /\ sessions' = sessions]_vars
    /\ [](\A t \in Serial :
            StreamRefused(th[t]) =>
                /\ Len(th[t].events) = 1
                /\ th[t].events[1].type = "error"
                /\ th[t].adapter = "none"
                /\ th[t].loop = "none"
                /\ th[t].pulls = 0
                /\ th[t].api_messages = <<>>)

\* A stream was asked for a session whose user messages have all been
\* trimmed away: it is refused, and the session holds what it held.
C29_Witness ==
    \E t \in Serial :
        /\ StreamRefused(th[t])
        /\ th[t].session_id \in DOMAIN sessions
        /\ th[t].messages # <<>>
        /\ ~HasUserMessage(th[t].messages)
        /\ sessions[th[t].session_id].messages = th[t].messages
        /\ sessions[th[t].session_id].last_activity = 0

\* C30: the index page is rendered only by a request that finds the
\* `authenticated` flag set, and a request that does not find it is
\* redirected to the login page; the flag becomes set only in a POST to
\* /login whose password is the passcode; a POST with another password, or
\* none, leaves it unset; /logout leaves it unset and redirects to /login.
C30_LoginGate ==
    [][\A t \in Serial :
        LET q == th'[t] IN
        /\ (th[t].pc = "idle" /\ q.kind = "index") =>
               /\ flask_session' = flask_session
               /\ IF "authenticated" \in flask_session
                  THEN q.result.status = 200 /\ q.result.template = "index.html"
                  ELSE q.result.status = 302 /\ q.result.location = "login"
        /\ ("authenticated" \notin flask_session /\ "authenticated" \in flask_session') =>
               /\ th[t].pc = "idle"
               /\ q.kind = "login"
               /\ q.arg.method = "POST"
               /\ q.arg.password = PASSCODE
        /\ (/\ th[t].pc = "idle" /\ q.kind = "login"
            /\ "authenticated" \notin flask_session
            /\ ~(q.arg.method = "POST" /\ q.arg.password = PASSCODE)) =>
               /\ "authenticated" \notin flask_session'
               /\ q.result.status = 200
               /\ q.result.template = "login.html"
        /\ (th[t].pc = "idle" /\ q.kind = "logout") =>
               /\ "authenticated" \notin flask_session'
               /\ q.result.status = 302 /\ q.result.location = "login"
        /\ th[t].pc = "done" => flask_session' = flask_session]_vars

\* After at least two earlier requests, a browser whose flag is not set asks
\* for the index page and is sent to the login page.
C30_Witness ==
    \E t \in Serial :
        /\ th[t].kind = "index" /\ th[t].pc = "done"
        /\ th[t].result.location = "login"
        /\ "authenticated" \notin flask_session
        /\ budget <= MaxLogin - 3

====
